---------------------------- MODULE Spec2Model ----------------------------
(***************************************************************************)
(* A model of the cash-handover bot (KachalichMaxim/CashDeals_bot).        *)
(*                                                                         *)
(* The spreadsheet is the durable state: the deal sheet, the roles sheet   *)
(* and the audit log CashFlow_Log.  The process state is the pending       *)
(* confirmations (user_context) and the caches.  Functions of the source   *)
(* are operators that take the sheets they read and return the sheets      *)
(* they leave behind together with their result; handlers and calls are    *)
(* actions.  A spreadsheet call that can raise takes its outcome as an     *)
(* input of the action (the record io).                                    *)
(***************************************************************************)
EXTENDS Integers, Sequences, FiniteSets, TLC

VARIABLES
    now,            \* wall clock, whole seconds
    logSheet,       \* CashFlow_Log: get_all_values(), header row included
    dealSheet,      \* deal sheet: the data rows under the header row
    rolesSheet,     \* roles sheet: the data rows under the header row
    rentalSheet,    \* rental reference sheet: the data rows under the header row
    deals_cache,    \* utils.cache: _deals_cache / _deals_cache_timestamp
    roles_cache,    \* utils.cache: _roles_cache / _roles_cache_timestamp
    user_context,   \* bot.handlers.user_context: user id -> pending confirmation
    shown,          \* user id -> the buttons under the bot's last message to the user
    iter,           \* a caller's loop over get_next_stage
    ret             \* the last call: its name, arguments, inputs and result

vars == <<now, logSheet, dealSheet, rolesSheet, rentalSheet, deals_cache, roles_cache,
          user_context, shown, iter, ret>>

-----------------------------------------------------------------------------
(* config.py                                                               *)

STAGE_RECEIVED_BY_MANAGER == "Received by manager"
STAGE_TRANSFERRED_TO_ASSISTANT == "Transferred to assistant"
STAGE_ACCEPTED_BY_ASSISTANT == "Accepted by assistant"
STAGE_TRANSFERRED_TO_OWNER == "Transferred to owner"
STAGE_ACCEPTED_BY_OWNER == "Accepted by owner"

STAGES == <<STAGE_RECEIVED_BY_MANAGER, STAGE_TRANSFERRED_TO_ASSISTANT,
            STAGE_ACCEPTED_BY_ASSISTANT, STAGE_TRANSFERRED_TO_OWNER,
            STAGE_ACCEPTED_BY_OWNER>>

ROLE_MANAGER == "Manager"
ROLE_ASSISTANT == "Assistant"
ROLE_OWNER == "Owner"
ROLE_NULL == "NULL"

STATUS_DISCREPANCY == "Discrepancy"
STATUS_COMPLETE == "Complete"
STATUS_IN_PROGRESS == "In progress"

\* Python's None for a string-valued result; any other optional value is <<>>
\* (None) or <<v>>.
None == "None"

Range(s) == {s[i] : i \in DOMAIN s}

-----------------------------------------------------------------------------
(* Time.  datetime.now() has microseconds, a stored timestamp has whole    *)
(* seconds: a datetime is [sec, sub], sub = 1 when the microsecond part is *)
(* not zero.                                                               *)

\* timedelta(minutes=5), in seconds
DUP_WINDOW_SECONDS == 300

\* how many duplicate-suppression windows the clock runs through
MaxWindows == 1

\* The instants the clock visits: each multiple of the window and the second after it.
Instants == {k * DUP_WINDOW_SECONDS + j : k \in 0..MaxWindows, j \in {0, 1}}

datetime_now(sub) == [sec |-> now, sub |-> sub]

\* datetime - timedelta(seconds)
dt_minus(dt, seconds) == [sec |-> dt.sec - seconds, sub |-> dt.sub]

\* a >= b on datetimes
dt_ge(a, b) == a.sec > b.sec \/ (a.sec = b.sec /\ a.sub >= b.sub)

\* timestamp.strftime("%Y-%m-%d %H:%M:%S"): the microseconds are dropped
strftime(dt) == dt.sec

\* datetime.strptime(cell, "%Y-%m-%d %H:%M:%S")
strptime(cell) == [sec |-> cell, sub |-> 0]

-----------------------------------------------------------------------------
(* sheets/client.py                                                        *)

\* ensure_cashflow_log_exists: the header row of CashFlow_Log
LOG_HEADERS == <<"DealID", "Stage", "Role", "User", "Amount", "Timestamp">>

\* a header row someone else gave the sheet
OTHER_HEADERS == <<"Deal", "Stage", "Who", "Amount", "When">>

\* worksheet.row_values(1): the first row, [] on an empty sheet
row_values_1(sheet) == IF sheet = <<>> THEN <<>> ELSE sheet[1]

\* worksheet.insert_row(values, 1)
insert_row_1(sheet, values) == <<values>> \o sheet

\* The outcomes of the calls of ensure_sheet_exists: all succeed; row_values
\* raises and the insert_row of the handler succeeds; both raise.
HdrOutcomes == {"ok", "read_fails", "all_fail"}

ensure_sheet_exists(sheet, headers, hdr) ==
    CASE hdr = "ok" ->
            IF row_values_1(sheet) # <<>> THEN sheet ELSE insert_row_1(sheet, headers)
      [] hdr = "read_fails" -> insert_row_1(sheet, headers)
      [] OTHER -> sheet

ensure_cashflow_log_exists(sheet, hdr) == ensure_sheet_exists(sheet, LOG_HEADERS, hdr)

\* retry_operation(func, max_retries=3, delay=1)
MAX_RETRIES == 3

\* The outcomes of the successive calls of func: TRUE returns, FALSE raises.
RetryOutcomes == [1..MAX_RETRIES -> BOOLEAN]

RECURSIVE retry_loop(_, _, _)
retry_loop(outs, attempt, max_retries) ==
    IF attempt >= max_retries
    THEN [ok |-> TRUE, calls |-> attempt, sleeps |-> attempt, raised |-> FALSE]
    ELSE IF outs[attempt + 1]
         THEN [ok |-> TRUE, calls |-> attempt + 1, sleeps |-> attempt, raised |-> FALSE]
         ELSE IF attempt = max_retries - 1
              THEN [ok |-> FALSE, calls |-> attempt + 1, sleeps |-> attempt,
                    raised |-> TRUE]
              ELSE retry_loop(outs, attempt + 1, max_retries)

retry_operation(outs, max_retries) == retry_loop(outs, 0, max_retries)

-----------------------------------------------------------------------------
(* sheets/models.py: CashFlowEvent                                         *)

CashFlowEvent(deal_id, stage, role, user, amount, timestamp) ==
    [deal_id |-> deal_id, stage |-> stage, role |-> role, user |-> user,
     amount |-> amount, timestamp |-> timestamp]

\* The amount cell of a row is <<>> when blank and <<n>> when it shows n.
to_row(event) ==
    <<event.deal_id, event.stage, event.role, event.user, <<event.amount>>,
      strftime(event.timestamp)>>

\* amount = float(amount_str) if amount_str else 0.0
from_row(row) ==
    CashFlowEvent(row[1], row[2], row[3], row[4],
                  IF row[5] = <<>> THEN 0 ELSE row[5][1], strptime(row[6]))

\* from_row returns (it raises on fewer than six cells, and on the cells of a
\* header row, which are no number and no timestamp)
from_row_parses(row) == Len(row) >= 6 /\ row \notin {LOG_HEADERS, OTHER_HEADERS}

-----------------------------------------------------------------------------
(* sheets/operations.py: the audit log                                     *)

\* list.index(x): the first position of x, 0-based; HasItem is `x in list`
HasItem(seq, x) == \E i \in DOMAIN seq : seq[i] = x
IndexOf(seq, x) == (CHOOSE i \in DOMAIN seq : seq[i] = x /\ \A j \in 1..(i - 1) : seq[j] # x) - 1

\* the names a first row offers to headers.index: those of a header row; an event
\* row standing first (the header could not be inserted) names no column
header_names(row) == IF row \in {LOG_HEADERS, OTHER_HEADERS} THEN row ELSE <<>>

Max3(a, b, c) == IF a >= b /\ a >= c THEN a ELSE IF b >= c THEN b ELSE c

\* The scan with the age of the stored row left out of the comparison.
DuplicateFound_any_age(all_values, event) ==
    /\ Len(all_values) > 1
    /\ LET headers == header_names(all_values[1]) IN
       /\ HasItem(headers, "DealID") /\ HasItem(headers, "Stage")
       /\ \E i \in 2..Len(all_values) :
             LET row == all_values[i] IN
             /\ Len(row) > IndexOf(headers, "Stage")
             /\ row[IndexOf(headers, "DealID") + 1] = event.deal_id
             /\ row[IndexOf(headers, "Stage") + 1] = event.stage

\* The idempotency scan of create_cashflow_event over all_values.
DuplicateFound(all_values, event) ==
    /\ Len(all_values) > 1
    /\ LET headers == header_names(all_values[1]) IN
       /\ HasItem(headers, "DealID") /\ HasItem(headers, "Stage")
       /\ HasItem(headers, "Timestamp")
       /\ LET deal_id_col == IndexOf(headers, "DealID")
              stage_col == IndexOf(headers, "Stage")
              timestamp_col == IndexOf(headers, "Timestamp")
              threshold_time == dt_minus(event.timestamp, DUP_WINDOW_SECONDS)
          IN \E i \in 2..Len(all_values) :
                LET row == all_values[i] IN
                /\ Len(row) > Max3(deal_id_col, stage_col, timestamp_col)
                /\ row[deal_id_col + 1] = event.deal_id
                /\ row[stage_col + 1] = event.stage
                /\ dt_ge(strptime(row[timestamp_col + 1]), threshold_time)

\* The inputs of one call of create_cashflow_event.
LogIO == [hdr : HdrOutcomes, rd : BOOLEAN, wr : RetryOutcomes]

OkWrites == [i \in 1..MAX_RETRIES |-> TRUE]
OkLogIO == [hdr |-> "ok", rd |-> TRUE, wr |-> OkWrites]

\* a variant of append_row that puts the new row first, under the header
append_row_newest_first(sheet, values) ==
    IF sheet = <<>> THEN <<values>>
    ELSE <<sheet[1], values>> \o SubSeq(sheet, 2, Len(sheet))

\* worksheet.append_row(values): the row goes after the last row of the sheet
append_row(sheet, values) == Append(sheet, values)

create_cashflow_event(sheet, event, io) ==
    LET ensured == ensure_cashflow_log_exists(sheet, io.hdr)
        all_values == ensured
    IN  IF ~io.rd THEN [sheet |-> ensured, result |-> FALSE]
        ELSE IF DuplicateFound(all_values, event)
        THEN [sheet |-> ensured, result |-> FALSE]
        ELSE IF retry_operation(io.wr, MAX_RETRIES).ok
        THEN [sheet |-> append_row(ensured, to_row(event)), result |-> TRUE]
        ELSE [sheet |-> ensured, result |-> FALSE]

\* a variant of sort_by_timestamp that leaves the events in the order of the sheet
sort_by_timestamp_sheet_order(events) == events

\* stable insertion of an event into a list sorted by timestamp (list.sort)
RECURSIVE sort_by_timestamp(_)
sort_by_timestamp(events) ==
    IF events = <<>> THEN <<>>
    ELSE LET n == Len(events)
             last == events[n]
             sorted == sort_by_timestamp(SubSeq(events, 1, n - 1))
             keep == {i \in DOMAIN sorted : ~dt_ge(last.timestamp, sorted[i].timestamp)}
             pos == IF keep = {} THEN Len(sorted) + 1
                    ELSE CHOOSE i \in keep : \A j \in keep : i <= j
         IN SubSeq(sorted, 1, pos - 1) \o <<last>> \o SubSeq(sorted, pos, Len(sorted))

\* the loop of get_cashflow_history over all_values[1:], from row i on
RECURSIVE collect_events(_, _, _, _)
collect_events(all_values, i, deal_id_col, deal_id) ==
    IF i > Len(all_values) THEN <<>>
    ELSE LET row == all_values[i]
             rest == collect_events(all_values, i + 1, deal_id_col, deal_id)
         IN IF Len(row) > deal_id_col /\ row[deal_id_col + 1] = deal_id
                /\ from_row_parses(row)
            THEN <<from_row(row)>> \o rest
            ELSE rest

\* get_cashflow_history(deal_id); rd = FALSE: the read raises
get_cashflow_history(sheet, deal_id, rd) ==
    IF ~rd \/ sheet = <<>> THEN <<>>
    ELSE LET headers == header_names(sheet[1])
             deal_id_col == IF HasItem(headers, "DealID")
                            THEN IndexOf(headers, "DealID") ELSE 0
         IN sort_by_timestamp(collect_events(sheet, 2, deal_id_col, deal_id))

-----------------------------------------------------------------------------
(* sheets/operations.py: the deal sheet.  A data row is a record of the    *)
(* cells the bot reads or writes: deal_id stands for the three cells       *)
(* owner, location and number that _build_deal_id joins; a flag cell is    *)
(* "Yes", "No" or ""; a number cell is <<>> (blank) or <<n>>.              *)

_build_deal_id(row) == row.deal_id

\* str.lower() on the spellings the sheets of the model hold
lower(s) ==
    CASE s = "Ivan" -> "ivan"
      [] s = "IVAN" -> "ivan"
      [] s = "Petr" -> "petr"
      [] s = "Not received" -> "not received"
      [] s = "NOT RECEIVED" -> "not received"
      [] s = "Yes" -> "yes"
      [] s = "YES" -> "yes"
      [] s = "True" -> "true"
      [] s = "Lenina" -> "lenina"
      [] s = "LENINA" -> "lenina"
      [] s = "Mira" -> "mira"
      [] OTHER -> s

\* str.strip() on the spellings the sheets of the model hold
strip(s) ==
    CASE s = " " -> ""
      [] s = " Ivan " -> "Ivan"
      [] s = " Yes" -> "Yes"
      [] s = " Lenina" -> "Lenina"
      [] OTHER -> s

\* str(cell).strip().lower() in ["да", "yes", "true", "1"]; "yes" stands for both words
is_yes(cell) == lower(strip(cell)) \in {"yes", "true", "1"}

\* An amount cell is <<>> when blank, <<n>> when it shows the number n, and
\* TEXT_CELL when it shows text that float() rejects.
TEXT_CELL == <<"text", "text">>

\* float(cell.replace(",", ".").replace(" ", "")) of a cell, None when blank or rejected
parse_amount(cell) == IF Len(cell) = 1 THEN cell ELSE <<>>

\* a variant of update_cell that takes idx as a count of the data rows
update_cell_counting_data_rows(sheet, idx, col, value) ==
    [sheet EXCEPT ![idx] = [@ EXCEPT ![col] = value]]

\* worksheet.update_cell(idx, col, value) on the data rows; idx counts from the
\* header row, which is row 1
update_cell(sheet, idx, col, value) ==
    [sheet EXCEPT ![idx - 1] = [@ EXCEPT ![col] = value]]

\* a variant of find_deal_row that is left at the last row visited when none matches
find_deal_row_last_visited(sheet, deal_id) ==
    LET hits == {i \in DOMAIN sheet : _build_deal_id(sheet[i]) = deal_id}
    IN IF hits = {} THEN Len(sheet) + 1
       ELSE (CHOOSE i \in hits : \A j \in hits : i <= j) + 1

\* the first data row of the deal, as a row number of the sheet; 0 when none
find_deal_row(sheet, deal_id) ==
    LET hits == {i \in DOMAIN sheet : _build_deal_id(sheet[i]) = deal_id}
    IN IF hits = {} THEN 0 ELSE (CHOOSE i \in hits : \A j \in hits : i <= j) + 1

\* update_cell calls in which a new receipt by the manager clears the owner's acceptance
stage_cell_writes_clearing(row, stage, amount) ==
    LET amount_received == parse_amount(row.amount_received) IN
    CASE stage = STAGE_RECEIVED_BY_MANAGER ->
            << <<"amount_received", <<amount>> >>, <<"owner_accepted", "">> >>
      [] stage = STAGE_TRANSFERRED_TO_ASSISTANT -> << <<"transferred_to_assistant", "Yes">> >>
      [] stage = STAGE_ACCEPTED_BY_ASSISTANT -> << <<"transferred_to_assistant", "Yes">> >>
      [] stage = STAGE_TRANSFERRED_TO_OWNER -> << <<"transferred_to_owner", "Yes">> >>
      [] stage = STAGE_ACCEPTED_BY_OWNER ->
            << <<"transferred_to_owner", "Yes">>, <<"owner_accepted", "Yes">>,
               <<"amount_accepted", <<amount>> >> >>
            \o (IF amount_received # <<>>
                THEN << <<"difference", <<amount_received[1] - amount>> >> >>
                ELSE <<>>)
      [] OTHER -> <<>>

\* The update_cell calls of update_deal_status_with_role for a stage, in order.
stage_cell_writes(row, stage, amount) ==
    LET amount_received == parse_amount(row.amount_received) IN
    CASE stage = STAGE_RECEIVED_BY_MANAGER -> << <<"amount_received", <<amount>> >> >>
      [] stage = STAGE_TRANSFERRED_TO_ASSISTANT -> << <<"transferred_to_assistant", "Yes">> >>
      [] stage = STAGE_ACCEPTED_BY_ASSISTANT -> << <<"transferred_to_assistant", "Yes">> >>
      [] stage = STAGE_TRANSFERRED_TO_OWNER -> << <<"transferred_to_owner", "Yes">> >>
      [] stage = STAGE_ACCEPTED_BY_OWNER ->
            << <<"transferred_to_owner", "Yes">>, <<"owner_accepted", "Yes">>,
               <<"amount_accepted", <<amount>> >> >>
            \o (IF amount_received # <<>>
                THEN << <<"difference", <<amount_received[1] - amount>> >> >>
                ELSE <<>>)
      [] OTHER -> <<>>

\* the first n of the writes, applied in order
RECURSIVE apply_writes(_, _, _, _)
apply_writes(sheet, idx, writes, n) ==
    IF n = 0 \/ writes = <<>> THEN sheet
    ELSE apply_writes(update_cell(sheet, idx, writes[1][1], writes[1][2]), idx,
                      Tail(writes), n - 1)

\* update_deal_status_with_role(deal_id, stage, amount, user, role).
\* io.main_rd: the read of the deal sheet returns; io.upd_fail: which of the
\* update_cell calls raises, 0 for none; io.log: the calls of
\* create_cashflow_event.  ts is the datetime.now() of the event.
update_deal_status_with_role(deals, log, deal_id, stage, amount, user, role, ts, io) ==
    IF ~io.main_rd THEN [deals |-> deals, log |-> log, result |-> FALSE]
    ELSE LET idx == find_deal_row(deals, deal_id) IN
         IF idx = 0 THEN [deals |-> deals, log |-> log, result |-> FALSE]
         ELSE LET writes == stage_cell_writes(deals[idx - 1], stage, amount) IN
              IF io.upd_fail # 0 /\ io.upd_fail <= Len(writes)
              THEN [deals |-> apply_writes(deals, idx, writes, io.upd_fail - 1),
                    log |-> log, result |-> FALSE]
              ELSE LET event == CashFlowEvent(deal_id, stage, role, user, amount, ts)
                       created == create_cashflow_event(log, event, io.log)
                   IN [deals |-> apply_writes(deals, idx, writes, Len(writes)),
                       log |-> created.sheet, result |-> TRUE]

\* calculate_discrepancies(deal_id): the loop over the history, then the two pairs
RECURSIVE last_amount(_, _)
last_amount(events, stage) ==
    IF events = <<>> THEN <<>>
    ELSE LET n == Len(events) IN
         IF events[n].stage = stage THEN <<events[n].amount>>
         ELSE last_amount(SubSeq(events, 1, n - 1), stage)

\* a variant of pair_discrepancy with the difference taken the other way round
pair_discrepancy_accepted_minus_declared(key, declared, accepted) ==
    IF declared # <<>> /\ accepted # <<>> /\ declared[1] - accepted[1] # 0
    THEN {<<key, accepted[1] - declared[1]>>}
    ELSE {}

\* one pair of calculate_discrepancies: an entry when both amounts are known
\* and their difference is not zero
pair_discrepancy(key, declared, accepted) ==
    IF declared # <<>> /\ accepted # <<>> /\ declared[1] - accepted[1] # 0
    THEN {<<key, declared[1] - accepted[1]>>}
    ELSE {}

\* a dict as a function on its keys, from a set of <<key, value>> pairs
dict_of(pairs) ==
    [k \in {p[1] : p \in pairs} |-> (CHOOSE p \in pairs : p[1] = k)[2]]

calculate_discrepancies(log, deal_id, rd) ==
    LET events == get_cashflow_history(log, deal_id, rd)
        transferred_to_assistant == last_amount(events, STAGE_TRANSFERRED_TO_ASSISTANT)
        accepted_by_assistant == last_amount(events, STAGE_ACCEPTED_BY_ASSISTANT)
        transferred_to_owner == last_amount(events, STAGE_TRANSFERRED_TO_OWNER)
        accepted_by_owner == last_amount(events, STAGE_ACCEPTED_BY_OWNER)
    IN dict_of(pair_discrepancy("assistant", transferred_to_assistant, accepted_by_assistant)
               \cup pair_discrepancy("owner", transferred_to_owner, accepted_by_owner))

-----------------------------------------------------------------------------
(* business/cashflow.py                                                    *)

\* get_current_stage(deal_id): the stage of the last event of the sorted history
\* that is one of the five stages
RECURSIVE last_known_stage(_)
last_known_stage(events) ==
    IF events = <<>> THEN None
    ELSE LET n == Len(events) IN
         IF HasItem(STAGES, events[n].stage) THEN events[n].stage
         ELSE last_known_stage(SubSeq(events, 1, n - 1))

get_current_stage(log, deal_id, rd) ==
    last_known_stage(sort_by_timestamp(get_cashflow_history(log, deal_id, rd)))

\* process_stage_transition(deal_id, from_stage, to_stage, amount, user, role);
\* from_stage is not read
process_stage_transition(deals, log, deal_id, to_stage, amount, user, role, ts, io) ==
    update_deal_status_with_role(deals, log, deal_id, to_stage, amount, user, role, ts, io)

SKIP_SEQUENCE ==
    <<STAGE_RECEIVED_BY_MANAGER, STAGE_TRANSFERRED_TO_OWNER, STAGE_ACCEPTED_BY_OWNER>>

\* a variant of get_next_stage that always walks the full sequence
get_next_stage_full_sequence(current_stage, skip_assistant) ==
    IF current_stage = None THEN STAGE_RECEIVED_BY_MANAGER
    ELSE IF HasItem(STAGES, current_stage) /\ IndexOf(STAGES, current_stage) < Len(STAGES) - 1
         THEN STAGES[IndexOf(STAGES, current_stage) + 2]
         ELSE None

\* get_next_stage(current_stage, skip_assistant)
get_next_stage(current_stage, skip_assistant) ==
    IF current_stage = None THEN STAGE_RECEIVED_BY_MANAGER
    ELSE LET stage_sequence == IF skip_assistant THEN SKIP_SEQUENCE ELSE STAGES IN
         IF HasItem(stage_sequence, current_stage)
         THEN LET current_index == IndexOf(stage_sequence, current_stage) IN
              IF current_index < Len(stage_sequence) - 1
              THEN stage_sequence[current_index + 2]
              ELSE None
         ELSE None

\* a variant of summary_status that reports Complete once the owner has accepted
summary_status_complete_first(accepted_by_owner, discrepancies) ==
    IF accepted_by_owner # <<>> THEN STATUS_COMPLETE
    ELSE IF DOMAIN discrepancies # {} THEN STATUS_DISCREPANCY
         ELSE STATUS_IN_PROGRESS

\* the status that get_deal_summary derives from the owner's amount and the
\* discrepancies
summary_status(accepted_by_owner, discrepancies) ==
    IF accepted_by_owner # <<>>
    THEN IF DOMAIN discrepancies # {} THEN STATUS_DISCREPANCY
         ELSE STATUS_COMPLETE
    ELSE IF DOMAIN discrepancies # {} THEN STATUS_DISCREPANCY
         ELSE STATUS_IN_PROGRESS

\* get_deal_summary(deal_id); rd.hist: its own read of the log returns, rd.disc:
\* the read of calculate_discrepancies returns
get_deal_summary(log, deal_id, rd) ==
    LET events == get_cashflow_history(log, deal_id, rd.hist)
        discrepancies == calculate_discrepancies(log, deal_id, rd.disc)
        accepted_by_owner == last_amount(events, STAGE_ACCEPTED_BY_OWNER)
    IN [deal_id |-> deal_id,
        received_by_manager |-> last_amount(events, STAGE_RECEIVED_BY_MANAGER),
        transferred_to_assistant |-> last_amount(events, STAGE_TRANSFERRED_TO_ASSISTANT),
        accepted_by_assistant |-> last_amount(events, STAGE_ACCEPTED_BY_ASSISTANT),
        transferred_to_owner |-> last_amount(events, STAGE_TRANSFERRED_TO_OWNER),
        accepted_by_owner |-> accepted_by_owner,
        discrepancies |-> discrepancies,
        status |-> summary_status(accepted_by_owner, discrepancies)]

-----------------------------------------------------------------------------
(* sheets/operations.py, utils/cache.py: deals read from the deal sheet    *)

\* "не получали" in the column "who received the cash"
NOT_RECEIVED == "Not received"

\* a data row of the deal sheet as the form leaves it
FormRow(deal_id, name, who_received_cash, amount_received) ==
    [deal_id |-> deal_id, name |-> name, all_cashless |-> "No",
     who_received_cash |-> who_received_cash, amount_received |-> amount_received,
     transferred_to_assistant |-> "", transferred_to_owner |-> "",
     owner_accepted |-> "", amount_accepted |-> <<>>, difference |-> <<>>]

\* a or b on optional numbers: a when it is neither None nor 0
py_or(a, b) == IF a # <<>> /\ a[1] # 0 THEN a ELSE b

\* _parse_deal_from_row(row, row_index): <<>> for None, <<deal>> for a Deal
_parse_deal_from_row(row, row_index) ==
    IF _build_deal_id(row) = "//" THEN <<>>
    ELSE LET amount_received == parse_amount(row.amount_received)
             amount_accepted == parse_amount(row.amount_accepted)
             transferred_to_assistant == is_yes(row.transferred_to_assistant)
             transferred_to_owner == is_yes(row.transferred_to_owner)
             owner_accepted == is_yes(row.owner_accepted)
         IN << [deal_id |-> _build_deal_id(row),
                received_by_manager |-> amount_received,
                who_received_cash |-> row.who_received_cash,
                all_cashless |-> is_yes(row.all_cashless),
                discrepancy |-> parse_amount(row.difference),
                transferred_to_assistant |->
                    IF transferred_to_assistant THEN amount_received ELSE <<>>,
                transferred_to_owner |->
                    IF owner_accepted \/ transferred_to_owner
                    THEN py_or(amount_accepted, amount_received) ELSE <<>>,
                accepted_by_owner |-> IF owner_accepted THEN amount_accepted ELSE <<>>,
                row_index |-> row_index + 2] >>

\* the loop of _load_all_deals over all_values[1:], from data row idx on
RECURSIVE parse_rows(_, _)
parse_rows(sheet, idx) ==
    IF idx > Len(sheet) THEN <<>>
    ELSE _parse_deal_from_row(sheet[idx], idx) \o parse_rows(sheet, idx + 1)

\* _load_all_deals(); rd = FALSE: the read raises
_load_all_deals(sheet, rd) == IF ~rd THEN <<>> ELSE parse_rows(sheet, 1)

\* get_deal_data_from_sheet(deal_id): <<>> for None, <<dict>> otherwise
get_deal_data_from_sheet(sheet, deal_id, rd) ==
    IF ~rd \/ find_deal_row(sheet, deal_id) = 0 THEN <<>>
    ELSE LET row == sheet[find_deal_row(sheet, deal_id) - 1]
         IN << [who_received_cash |-> row.who_received_cash,
                amount_received |-> parse_amount(row.amount_received),
                transferred_to_assistant |-> is_yes(row.transferred_to_assistant),
                transferred_to_owner |-> is_yes(row.transferred_to_owner),
                owner_accepted |-> is_yes(row.owner_accepted)] >>

-----------------------------------------------------------------------------
(* sheets/operations.py, utils/cache.py: the roles sheet.  The sheet is    *)
(* get_all_values(), header row included; a row is                          *)
(* <<name, introduce yourself, telegram id, role>>.                        *)

\* ensure_roles_sheet_exists: the header row of the roles sheet
ROLES_HEADERS == <<"Name", "Introduce yourself", "Telegram ID", "Role">>

ensure_roles_sheet_exists(sheet, hdr) == ensure_sheet_exists(sheet, ROLES_HEADERS, hdr)

\* the column the scan over the headers finds for a name: <<>> for None
\* The column a header names: the first test of the scan that header.lower() passes
\* ('telegram', "роль", "фио", "представьтесь" in it), "" when it passes none.
header_kind(header) ==
    CASE header \in {"Telegram ID", "TELEGRAM ID"} -> "Telegram ID"
      [] header \in {"Role", "ROLE"} -> "Role"
      [] header = "Name" -> "Name"
      [] header = "Introduce yourself" -> "Introduce yourself"
      [] OTHER -> ""

\* (0-based); the scan does not stop at a match, so the last header of the kind wins
find_col(headers, name) ==
    IF \A i \in DOMAIN headers : header_kind(headers[i]) # name THEN <<>>
    ELSE <<(CHOOSE i \in DOMAIN headers :
               /\ header_kind(headers[i]) = name
               /\ \A j \in DOMAIN headers : header_kind(headers[j]) = name => j <= i) - 1>>

\* the four columns the scan over the headers leaves
find_cols(headers) ==
    [telegram_id_col |-> find_col(headers, "Telegram ID"),
     role_col |-> find_col(headers, "Role"),
     fio_col |-> find_col(headers, "Name"),
     predstavites_col |-> find_col(headers, "Introduce yourself")]

UserRole(telegram_id, name, role, predstavites) ==
    [telegram_id |-> telegram_id, name |-> name, role |-> role,
     predstavites |-> predstavites]

\* UserRole(telegram_id=...): the defaults of the dataclass
DefaultUserRole(telegram_id) == UserRole(telegram_id, None, ROLE_NULL, None)

\* the cell of a row in an optional column, and the default when there is none
cell_or(row, col, default) ==
    IF col # <<>> /\ Len(row) > col[1] THEN row[col[1] + 1] ELSE default

\* the rows of a user, as row numbers of the sheet
user_rows(sheet, telegram_id_col, telegram_id) ==
    {i \in 2..Len(sheet) :
        Len(sheet[i]) > telegram_id_col /\ sheet[i][telegram_id_col + 1] = telegram_id}

\* The inputs of one call of add_user_to_roles: the read returns; how many
\* writes return before one raises.
RolesIO == [rd : BOOLEAN, wr : 0..2]
OkRolesIO == [rd |-> TRUE, wr |-> 2]

\* add_user_to_roles below the scan of the headers: cols are the columns found,
\* found the rows of the user
upsert_user_row(sheet, telegram_id, name, io, cols, found) ==
    IF found # {}
    THEN LET row_idx == CHOOSE i \in found : \A j \in found : i <= j
             row == sheet[row_idx]
         IN IF cols.fio_col # <<>> /\ Len(row) > cols.fio_col[1]
               /\ row[cols.fio_col[1] + 1] = ""
            THEN IF io.wr = 0 THEN [sheet |-> sheet, result |-> FALSE]
                 ELSE [sheet |-> [sheet EXCEPT ![row_idx][cols.fio_col[1] + 1] = name],
                       result |-> TRUE]
            ELSE [sheet |-> sheet, result |-> TRUE]
    ELSE LET new_row ==
                 [i \in 1..Len(sheet[1]) |->
                     IF cols.telegram_id_col = <<i - 1>> THEN telegram_id
                     ELSE IF cols.role_col = <<i - 1>> THEN ROLE_NULL
                     ELSE IF cols.fio_col = <<i - 1>> THEN name
                     ELSE ""]
         IN IF io.wr = 0 THEN [sheet |-> sheet, result |-> FALSE]
            ELSE [sheet |-> Append(sheet, new_row), result |-> TRUE]

\* an add_user_to_roles that appends a row without looking for the user
add_user_to_roles_appending(sheet, telegram_id, name, io) ==
    IF ~io.rd THEN [sheet |-> sheet, result |-> FALSE]
    ELSE IF sheet = <<>>
    THEN IF io.wr = 0 THEN [sheet |-> sheet, result |-> FALSE]
         ELSE IF io.wr = 1 THEN [sheet |-> insert_row_1(sheet, ROLES_HEADERS),
                                result |-> FALSE]
         ELSE [sheet |-> <<ROLES_HEADERS, <<name, "", telegram_id, ROLE_NULL>> >>,
               result |-> TRUE]
    ELSE CHOOSE r \in {IF cols.telegram_id_col = <<>> THEN [sheet |-> sheet, result |-> FALSE]
                       ELSE upsert_user_row(sheet, telegram_id, name, io, cols, {}) :
                       cols \in {find_cols(sheet[1])}} : TRUE

add_user_to_roles(sheet, telegram_id, name, io) ==
    IF ~io.rd THEN [sheet |-> sheet, result |-> FALSE]
    ELSE IF sheet = <<>>
    THEN IF io.wr = 0 THEN [sheet |-> sheet, result |-> FALSE]
         ELSE IF io.wr = 1 THEN [sheet |-> insert_row_1(sheet, ROLES_HEADERS),
                                result |-> FALSE]
         ELSE [sheet |-> <<ROLES_HEADERS, <<name, "", telegram_id, ROLE_NULL>> >>,
               result |-> TRUE]
    ELSE CHOOSE r \in {IF cols.telegram_id_col = <<>> THEN [sheet |-> sheet, result |-> FALSE]
                       ELSE upsert_user_row(sheet, telegram_id, name, io, cols,
                                            user_rows(sheet, cols.telegram_id_col[1], telegram_id)) :
                       cols \in {find_cols(sheet[1])}} : TRUE

\* get_user_role(telegram_id)
\* the UserRole of a row of the roles sheet
role_of_row(row, telegram_id, cols) ==
    UserRole(telegram_id, cell_or(row, cols.fio_col, None),
             cell_or(row, cols.role_col, ROLE_NULL),
             cell_or(row, cols.predstavites_col, None))

get_user_role(sheet, telegram_id, rd) ==
    IF ~rd \/ sheet = <<>> THEN DefaultUserRole(telegram_id)
    ELSE CHOOSE r \in
           {IF cols.telegram_id_col = <<>> THEN DefaultUserRole(telegram_id)
            ELSE IF \A i \in 2..Len(sheet) : i \notin user_rows(sheet, cols.telegram_id_col[1], telegram_id)
            THEN DefaultUserRole(telegram_id)
            ELSE role_of_row(sheet[CHOOSE i \in user_rows(sheet, cols.telegram_id_col[1], telegram_id) :
                                      \A j \in user_rows(sheet, cols.telegram_id_col[1], telegram_id) : i <= j],
                             telegram_id, cols) :
            cols \in {find_cols(sheet[1])}} : TRUE

\* _load_all_roles(): the dict telegram id -> UserRole; a later row of a user
\* replaces an earlier one
_load_all_roles(sheet, rd) ==
    IF ~rd \/ sheet = <<>> THEN <<>>
    ELSE CHOOSE r \in
           {IF cols.telegram_id_col = <<>> THEN <<>>
            ELSE [id \in {sheet[i][cols.telegram_id_col[1] + 1] :
                             i \in {k \in 2..Len(sheet) : Len(sheet[k]) > cols.telegram_id_col[1]}} |->
                     role_of_row(sheet[CHOOSE i \in user_rows(sheet, cols.telegram_id_col[1], id) :
                                          \A j \in user_rows(sheet, cols.telegram_id_col[1], id) : i >= j],
                                 id, cols)] :
            cols \in {find_cols(sheet[1])}} : TRUE

-----------------------------------------------------------------------------
(* utils/cache.py.  A cache is [data, timestamp]; the timestamp is <<>>    *)
(* for None; the data of the deals cache is <<>> for None and <<list>>     *)
(* for a list, the data of the roles cache is the dict, a function on its  *)
(* keys.                                                                   *)

\* CACHE_TTL, in seconds
CACHE_TTL == 30

\* the caches of a process that has served no request
NoDealsCache == [data |-> <<>>, timestamp |-> <<>>]
NoRolesCache == [data |-> <<>>, timestamp |-> <<>>]

\* an entry that expires when it is CACHE_TTL seconds old
expired_at_ttl(timestamp) == now - timestamp[1] >= CACHE_TTL

\* (now - timestamp).total_seconds() > CACHE_TTL
expired(timestamp) == now - timestamp[1] > CACHE_TTL

\* a variant of get_cached_deals that also reloads an empty cached list
get_cached_deals_reloading_empty(cache, sheet, force_refresh, rd) ==
    LET refresh == cache.data = <<>> \/ cache.data = << <<>> >> \/ cache.timestamp = <<>>
                       \/ force_refresh \/ expired(cache.timestamp)
        fresh == IF refresh
                 THEN [data |-> <<_load_all_deals(sheet, rd)>>, timestamp |-> <<now>>]
                 ELSE cache
    IN [cache |-> fresh, result |-> fresh.data[1], loads |-> IF refresh THEN 1 ELSE 0]

\* get_cached_deals(force_refresh)
\* loads: how many times _load_all_deals() ran
get_cached_deals(cache, sheet, force_refresh, rd) ==
    LET refresh == cache.data = <<>> \/ cache.timestamp = <<>> \/ force_refresh
                       \/ expired(cache.timestamp)
        fresh == IF refresh
                 THEN [data |-> <<_load_all_deals(sheet, rd)>>, timestamp |-> <<now>>]
                 ELSE cache
    IN [cache |-> fresh, result |-> fresh.data[1], loads |-> IF refresh THEN 1 ELSE 0]

\* get_cached_user_role(telegram_id, force_refresh)
get_cached_user_role(cache, sheet, telegram_id, force_refresh, rd) ==
    LET fresh == IF cache.timestamp = <<>> \/ force_refresh \/ expired(cache.timestamp)
                 THEN [data |-> _load_all_roles(sheet, rd), timestamp |-> <<now>>]
                 ELSE cache
    IN [cache |-> fresh,
        result |-> IF telegram_id \in DOMAIN fresh.data THEN fresh.data[telegram_id]
                   ELSE DefaultUserRole(telegram_id)]

\* invalidate_cache(), on one cache
invalidate_cache(cache) == [cache EXCEPT !.timestamp = <<>>]

\* the filter by role, on the row of a deal (get_user_deals and get_cached_user_deals
\* hold the same lines)
row_shown(row, role, predstavites_name) ==
    CASE role = ROLE_OWNER ->
             ~is_yes(row.transferred_to_owner) \/ ~is_yes(row.owner_accepted)
      [] role = ROLE_MANAGER ->
             /\ lower(row.who_received_cash) \notin {lower(NOT_RECEIVED), ""}
             /\ IF predstavites_name \notin {None, ""} /\ strip(predstavites_name) # ""
                THEN lower(row.who_received_cash) = lower(strip(predstavites_name))
                ELSE row.name # "" /\ lower(row.who_received_cash) = lower(row.name)
      [] role = ROLE_ASSISTANT ->
             is_yes(row.transferred_to_assistant) /\ ~is_yes(row.transferred_to_owner)
      [] OTHER -> FALSE

\* the filter of get_cached_user_deals for one deal of the cache: deal_id_to_row keeps
\* the last row of a deal id
user_sees(deal, sheet, role, predstavites_name) ==
    /\ ~deal.all_cashless
    /\ find_deal_row(sheet, deal.deal_id) # 0
    /\ \E i \in DOMAIN sheet :
          /\ _build_deal_id(sheet[i]) = deal.deal_id
          /\ \A j \in DOMAIN sheet : _build_deal_id(sheet[j]) = deal.deal_id => j <= i
          /\ \E row \in {sheet[i]} : row_shown(row, role, predstavites_name)

\* get_cached_user_deals(telegram_id, role, force_refresh); rd.deals, rd.roles,
\* rd.main: the reads of the two loaders and of the filter return
get_cached_user_deals(dcache, rcache, deals, roles, telegram_id, role, force_refresh, rd) ==
    LET all_deals == get_cached_deals(dcache, deals, force_refresh, rd.deals)
        user_role_obj == get_cached_user_role(rcache, roles, telegram_id, force_refresh,
                                              rd.roles)
        predstavites_name == user_role_obj.result.predstavites
    IN [deals_cache |-> all_deals.cache, roles_cache |-> user_role_obj.cache,
        result |-> IF ~rd.main \/ deals = <<>> THEN <<>>
                   ELSE SelectSeq(all_deals.result,
                                  LAMBDA deal : user_sees(deal, deals, role,
                                                          predstavites_name))]

-----------------------------------------------------------------------------
(* The states the specifications start from and the inputs they draw.      *)

DealIds == {"O/L/1", "O/L/2"}

\* the largest amount a caller enters
MaxAmount == 2
Amounts == 1..MaxAmount

\* the rows CashFlow_Log may grow to, header rows included
MaxLogRows == 3

\* One spreadsheet fault per call of create_cashflow_event, or none: in the
\* row_values of ensure_sheet_exists, in the read, or in the first two or all
\* three writes.
LogIOCases ==
    {[OkLogIO EXCEPT !.hdr = h] : h \in {"ok", "read_fails"}}
    \cup {[OkLogIO EXCEPT !.rd = FALSE]}
    \cup {[OkLogIO EXCEPT !.wr = w] : w \in {<<FALSE, FALSE, TRUE>>, <<FALSE, FALSE, FALSE>>}}

\* no loop over get_next_stage is running
NoIter == [running |-> FALSE]

\* What every specification starts from, the sheets apart.
InitRest ==
    /\ now = 0
    /\ rentalSheet = <<>>
    /\ deals_cache = NoDealsCache
    /\ roles_cache = NoRolesCache
    /\ user_context = <<>>
    /\ shown = <<>>
    /\ iter = NoIter
    /\ ret = [op |-> "start"]

\* the stored event rows of the log sheet, header rows left out
EventRows(sheet) == SelectSeq(sheet, LAMBDA r : r \notin {LOG_HEADERS, OTHER_HEADERS})

\* a dict with the key k set to v
Put(f, k, v) == [x \in DOMAIN f \cup {k} |-> IF x = k THEN v ELSE f[x]]

\* time passes
Tick ==
    /\ \E t \in Instants : t > now /\ now' = t
    /\ ret' = [op |-> "tick"]
    /\ UNCHANGED <<rentalSheet, logSheet, dealSheet, rolesSheet, deals_cache, roles_cache,
                   user_context, shown, iter>>

-----------------------------------------------------------------------------
(* SpecLog: callers of create_cashflow_event on a log sheet that is empty, *)
(* has the standard header row, or has another header row.                 *)

InitLog ==
    /\ logSheet \in {<<>>, <<LOG_HEADERS>>, <<OTHER_HEADERS>>}
    /\ dealSheet = <<>>
    /\ rolesSheet = <<>>
    /\ InitRest

CreateEvent(deal_id, stage, amount, sub, io) ==
    /\ LET event == CashFlowEvent(deal_id, stage, ROLE_MANAGER, "Ivan", amount,
                                  datetime_now(sub))
           r == create_cashflow_event(logSheet, event, io)
       IN /\ Len(r.sheet) <= MaxLogRows
          /\ logSheet' = r.sheet
          /\ ret' = [op |-> "create_cashflow_event", event |-> event, io |-> io,
                     result |-> r.result]
    /\ UNCHANGED <<rentalSheet, now, dealSheet, rolesSheet, deals_cache, roles_cache,
                   user_context, shown, iter>>

\* the deals and stages the callers log: two stages of one deal, one of another
LogKeys ==
    {<<"O/L/1", STAGE_TRANSFERRED_TO_ASSISTANT>>, <<"O/L/1", STAGE_ACCEPTED_BY_ASSISTANT>>,
     <<"O/L/2", STAGE_TRANSFERRED_TO_ASSISTANT>>}

NextLog ==
    \/ Tick
    \/ \E k \in LogKeys, sub \in {0, 1}, io \in LogIOCases :
          CreateEvent(k[1], k[2], 1, sub, io)

SpecLog == InitLog /\ [][NextLog]_vars

-----------------------------------------------------------------------------
(* Spec: callers of process_stage_transition on a deal sheet with one deal.*)

\* the role that confirms a stage (business/roles.py: can_confirm_stage)
can_confirm_stage(role, stage) ==
    CASE stage = STAGE_RECEIVED_BY_MANAGER -> role = ROLE_MANAGER
      [] stage = STAGE_TRANSFERRED_TO_ASSISTANT -> role = ROLE_MANAGER
      [] stage = STAGE_ACCEPTED_BY_ASSISTANT -> role = ROLE_ASSISTANT
      [] stage = STAGE_TRANSFERRED_TO_OWNER -> role = ROLE_ASSISTANT
      [] stage = STAGE_ACCEPTED_BY_OWNER -> role = ROLE_OWNER
      [] OTHER -> FALSE

\* the caller's role for a stage
ConfirmingRole(stage) ==
    CHOOSE role \in {ROLE_MANAGER, ROLE_ASSISTANT, ROLE_OWNER} : can_confirm_stage(role, stage)

\* The inputs of one call of update_deal_status_with_role.
OkTransIO == [main_rd |-> TRUE, upd_fail |-> 0, log |-> OkLogIO]

\* One fault per call, or none: in the read of the deal sheet, in the first
\* update_cell, or in create_cashflow_event.
TransIOCases ==
    {[OkTransIO EXCEPT !.main_rd = FALSE], [OkTransIO EXCEPT !.upd_fail = 1]}
    \cup {[OkTransIO EXCEPT !.log = l] :
             l \in LogIOCases \cup {[OkLogIO EXCEPT !.hdr = "all_fail"]}}

\* the deal the form has filled in: Ivan received the cash
TheDeal == FormRow("O/L/1", "Ivan", "Ivan", <<>>)

InitSpec ==
    /\ logSheet \in {<<>>, <<LOG_HEADERS>>}
    /\ dealSheet = <<TheDeal>>
    /\ rolesSheet = <<>>
    /\ InitRest

\* a call of process_stage_transition; the caller notes how many event rows
\* the log held before
Transition(deal_id, stage, amount, sub, io) ==
    /\ LET r == process_stage_transition(dealSheet, logSheet, deal_id, stage, amount,
                                         "Ivan", ConfirmingRole(stage),
                                         datetime_now(sub), io)
       IN /\ Len(r.log) <= MaxLogRows + 1
          /\ dealSheet' = r.deals
          /\ logSheet' = r.log
          /\ ret' = [op |-> "process_stage_transition", result |-> r.result,
                     log_before |-> Len(EventRows(logSheet))]
    /\ UNCHANGED <<rentalSheet, now, rolesSheet, deals_cache, roles_cache, user_context, shown, iter>>

SpecStages ==
    {STAGE_RECEIVED_BY_MANAGER, STAGE_TRANSFERRED_TO_ASSISTANT,
     STAGE_ACCEPTED_BY_ASSISTANT}

\* calls for the deal of the sheet, and calls for a deal the sheet does not hold
Next ==
    \/ \E s \in SpecStages, a \in Amounts, io \in TransIOCases :
          Transition("O/L/1", s, a, 0, io)
    \/ \E s \in SpecStages, a \in Amounts : Transition("O/L/2", s, a, 0, OkTransIO)

Spec == InitSpec /\ [][Next]_vars

-----------------------------------------------------------------------------
(* SpecOps: the operations of the bot around the audit log: stage          *)
(* transitions, /start, the caches, the start of the process.              *)

\* get_main_menu_keyboard(): the callback data of its buttons
get_main_menu_keyboard == {<<"my", "deals">>}

\* str(user.id)
str_id(u) == ToString(u)

\* a /start that enters the user as a manager
StartCommand_as_manager(u, name, io, rd) ==
    /\ LET telegram_id == str_id(u)
           added == add_user_to_roles(rolesSheet, telegram_id, name, io)
           user_role_obj == get_cached_user_role(roles_cache, added.sheet, telegram_id,
                                                 FALSE, rd)
       IN /\ rolesSheet' = [i \in DOMAIN added.sheet |->
                               IF i > 1 /\ Len(added.sheet[i]) = 4
                                        /\ added.sheet[i][3] = telegram_id
                               THEN [added.sheet[i] EXCEPT ![4] = ROLE_MANAGER]
                               ELSE added.sheet[i]]
          /\ roles_cache' = user_role_obj.cache
          /\ shown' = Put(shown, u, get_main_menu_keyboard)
          /\ ret' = [op |-> "start_command"]
    /\ UNCHANGED <<rentalSheet, now, logSheet, dealSheet, deals_cache, user_context, iter>>

\* start_command: /start from the user with id u, whose Telegram name is name
StartCommand(u, name, io, rd) ==
    /\ LET telegram_id == str_id(u)
           added == add_user_to_roles(rolesSheet, telegram_id, name, io)
           user_role_obj == get_cached_user_role(roles_cache, added.sheet, telegram_id,
                                                 FALSE, rd)
       IN /\ rolesSheet' = added.sheet
          /\ roles_cache' = user_role_obj.cache
          /\ shown' = Put(shown, u, get_main_menu_keyboard)
          /\ ret' = [op |-> "start_command"]
    /\ UNCHANGED <<rentalSheet, now, logSheet, dealSheet, deals_cache, user_context, iter>>

\* a caller of get_cached_deals
GetCachedDeals(force_refresh, rd) ==
    /\ LET r == get_cached_deals(deals_cache, dealSheet, force_refresh, rd)
       IN /\ deals_cache' = r.cache
          /\ ret' = [op |-> "get_cached_deals", result |-> Len(r.result)]
    /\ UNCHANGED <<rentalSheet, now, logSheet, dealSheet, rolesSheet, roles_cache, user_context,
                   shown, iter>>

\* a caller of invalidate_cache
InvalidateCache ==
    /\ deals_cache' = invalidate_cache(deals_cache)
    /\ roles_cache' = invalidate_cache(roles_cache)
    /\ ret' = [op |-> "invalidate_cache"]
    /\ UNCHANGED <<rentalSheet, now, logSheet, dealSheet, rolesSheet, user_context, shown, iter>>

\* initialize_sheets, at the start of the process
InitializeSheets(hdr_log, hdr_roles) ==
    /\ logSheet' = ensure_cashflow_log_exists(logSheet, hdr_log)
    /\ rolesSheet' = ensure_roles_sheet_exists(rolesSheet, hdr_roles)
    /\ Len(logSheet') <= MaxLogRows + 1
    /\ Len(rolesSheet') <= MaxLogRows - 1
    /\ ret' = [op |-> "initialize_sheets"]
    /\ UNCHANGED <<rentalSheet, now, dealSheet, deals_cache, roles_cache, user_context, shown, iter>>

InitOps ==
    /\ logSheet = <<>>
    /\ dealSheet = <<TheDeal>>
    /\ rolesSheet = <<>>
    /\ InitRest

OpsStages == {STAGE_TRANSFERRED_TO_ASSISTANT, STAGE_ACCEPTED_BY_OWNER}

\* no fault, a retried append, an append that fails, a header row inserted again
OpsIOCases ==
    {[OkTransIO EXCEPT !.log = l] :
        l \in {OkLogIO, [OkLogIO EXCEPT !.wr = <<FALSE, FALSE, TRUE>>],
               [OkLogIO EXCEPT !.wr = <<FALSE, FALSE, FALSE>>],
               [OkLogIO EXCEPT !.hdr = "read_fails"]}}

NextOps ==
    \/ \E s \in OpsStages, io \in OpsIOCases : Transition("O/L/1", s, 1, 0, io)
    \/ \E io \in {OkRolesIO, [OkRolesIO EXCEPT !.wr = 1]}, rd \in BOOLEAN :
          StartCommand(1, "Ivan Petrov", io, rd)
    \/ \E force_refresh \in BOOLEAN, rd \in BOOLEAN : GetCachedDeals(force_refresh, rd)
    \/ InvalidateCache
    \/ \E hdr \in {"ok", "read_fails"} : InitializeSheets(hdr, hdr)

SpecOps == InitOps /\ [][NextOps]_vars

-----------------------------------------------------------------------------
(* SpecPure: the functions of a stored history, applied to drawn inputs.   *)

\* the longest history drawn
MaxHist == 3

\* the rows drawn: the four transfer and accept stages of one deal, an amount
\* or a blank amount cell, one of two seconds
PureRows ==
    {<<"O/L/1", s, ROLE_MANAGER, "Ivan", a, t>> :
        s \in Range(STAGES) \ {STAGE_RECEIVED_BY_MANAGER},
        a \in {<<>>} \cup {<<n>> : n \in Amounts},
        t \in {0, 1}}

PureLogs ==
    {<<LOG_HEADERS>> \o rows : rows \in UNION {[1..n -> PureRows] : n \in 0..MaxHist}}

\* the stages a loop over get_next_stage starts from
PureIters ==
    {[running |-> TRUE, start |-> s, current_stage |-> s, skip_assistant |-> k,
      visited |-> <<>>, done |-> FALSE] :
        s \in {None, "Other"} \cup Range(STAGES), k \in BOOLEAN}

InitPure ==
    /\ \/ logSheet \in PureLogs /\ iter = NoIter
       \/ logSheet = <<LOG_HEADERS>> /\ iter \in PureIters
    /\ now = 0
    /\ dealSheet = <<>>
    /\ rolesSheet = <<>>
    /\ rentalSheet = <<>>
    /\ deals_cache = NoDealsCache
    /\ roles_cache = NoRolesCache
    /\ user_context = <<>>
    /\ shown = <<>>
    /\ ret = [op |-> "start"]

\* one turn of the loop: stage = get_next_stage(stage, skip_assistant) until None
NextStage ==
    /\ iter.running /\ ~iter.done
    /\ LET n == get_next_stage(iter.current_stage, iter.skip_assistant)
       IN /\ iter' = IF n = None THEN [iter EXCEPT !.done = TRUE]
                     ELSE [iter EXCEPT !.current_stage = n, !.visited = Append(@, n)]
          /\ ret' = [op |-> "get_next_stage", current_stage |-> iter.current_stage,
                     skip_assistant |-> iter.skip_assistant, result |-> n]
    /\ UNCHANGED <<rentalSheet, now, logSheet, dealSheet, rolesSheet, deals_cache, roles_cache,
                   user_context, shown>>

\* a caller of calculate_discrepancies
Discrepancies(deal_id, rd) ==
    /\ ret' = [op |-> "calculate_discrepancies", deal_id |-> deal_id, rd |-> rd,
               result |-> calculate_discrepancies(logSheet, deal_id, rd)]
    /\ UNCHANGED <<rentalSheet, now, logSheet, dealSheet, rolesSheet, deals_cache, roles_cache,
                   user_context, shown, iter>>

\* the reads of get_deal_summary: both return, or one of them raises
SummaryReads ==
    {[hist |-> TRUE, disc |-> TRUE], [hist |-> FALSE, disc |-> TRUE],
     [hist |-> TRUE, disc |-> FALSE]}
OkReads == [hist |-> TRUE, disc |-> TRUE]

\* a caller of get_deal_summary
Summary(deal_id, rd) ==
    /\ ret' = [op |-> "get_deal_summary", deal_id |-> deal_id, rd |-> rd,
               result |-> get_deal_summary(logSheet, deal_id, rd)]
    /\ UNCHANGED <<rentalSheet, now, logSheet, dealSheet, rolesSheet, deals_cache, roles_cache,
                   user_context, shown, iter>>

NextPure ==
    \/ NextStage
    \/ \E d \in DealIds, rd \in BOOLEAN : Discrepancies(d, rd)
    \/ \E rd \in SummaryReads : Summary("O/L/1", rd)

SpecPure == InitPure /\ [][NextPure]_vars

-----------------------------------------------------------------------------
(* Claims about the audit log.                                             *)

HasStandardHeader(sheet) == sheet # <<>> /\ sheet[1] = LOG_HEADERS

\* a stored row of the event's deal and stage, stamped at most 5 minutes before
\* the event (times in half seconds)
RecentSameRow(sheet, e) ==
    \E i \in 2..Len(sheet) :
        /\ sheet[i] \notin {LOG_HEADERS, OTHER_HEADERS}
        /\ sheet[i][1] = e.deal_id /\ sheet[i][2] = e.stage
        /\ LET age == (2 * e.timestamp.sec + e.timestamp.sub) - 2 * sheet[i][6]
           IN age >= 0 /\ age <= 2 * DUP_WINDOW_SECONDS

SameStageRows(sheet) ==
    {i \in DOMAIN sheet : \E j \in DOMAIN sheet :
        /\ i < j
        /\ {sheet[i], sheet[j]} \cap {LOG_HEADERS, OTHER_HEADERS} = {}
        /\ sheet[i][1] = sheet[j][1] /\ sheet[i][2] = sheet[j][2]}

\* C1: on a log with the standard header row, create_cashflow_event appends
\* nothing and returns failure when a row of the same deal and stage is stamped
\* within the 5 minutes before the event; otherwise it appends exactly the
\* event's row and returns success (or, when the read or all three write
\* attempts raise, appends nothing and returns failure).
C1_IdempotentAppend ==
    [][(ret'.op = "create_cashflow_event" /\ HasStandardHeader(logSheet)) =>
        LET e == ret'.event
            written == ret'.io.rd /\ \E k \in 1..MAX_RETRIES : ret'.io.wr[k]
        IN IF RecentSameRow(logSheet, e) \/ ~written
           THEN EventRows(logSheet') = EventRows(logSheet) /\ ~ret'.result
           ELSE /\ EventRows(logSheet') = Append(EventRows(logSheet), to_row(e))
                /\ ret'.result]_vars

\* C1 witness: a repeat is suppressed on a log that holds two rows of one deal
\* and stage, the second appended after the window.
C1_Witness ==
    /\ ret.op = "create_cashflow_event" /\ ret.io = OkLogIO /\ ~ret.result
    /\ HasStandardHeader(logSheet)
    /\ RecentSameRow(logSheet, ret.event)
    /\ SameStageRows(logSheet) # {}

\* C3: a transition that is reported successful has appended one row to the
\* audit log.
C3_SuccessMeansLogged ==
    (ret.op = "process_stage_transition" /\ ret.result) =>
        Len(EventRows(logSheet)) = ret.log_before + 1

\* the step is a call of process_stage_transition whose event
\* create_cashflow_event stores as the last row
StoresEvent ==
    \E s \in OpsStages, a \in Amounts, io \in OpsIOCases :
        /\ Transition("O/L/1", s, a, 0, io)
        /\ LET event == CashFlowEvent("O/L/1", s, ConfirmingRole(s), "Ivan", a,
                                      datetime_now(0))
           IN /\ create_cashflow_event(logSheet, event, io.log).result
              /\ EventRows(logSheet') = Append(EventRows(logSheet), to_row(event))

\* C5: no step of the bot's operations modifies, reorders or removes a stored
\* event row, and a step that adds one is a call of create_cashflow_event that
\* returns success and adds exactly its event as the last row.
C5_AppendOnly ==
    [][/\ Len(EventRows(logSheet')) >= Len(EventRows(logSheet))
       /\ SubSeq(EventRows(logSheet'), 1, Len(EventRows(logSheet))) = EventRows(logSheet)
       /\ EventRows(logSheet') # EventRows(logSheet) => StoresEvent]_vars

\* C5 witness: the log holds two event rows under a header row inserted twice,
\* a user is registered, the deals cache is loaded and has been invalidated.
C5_Witness ==
    /\ ret.op = "invalidate_cache"
    /\ Len(EventRows(logSheet)) = 2 /\ Len(logSheet) = 4
    /\ Len(rolesSheet) >= 2
    /\ deals_cache.data # <<>> /\ deals_cache.timestamp = <<>>

\* the stages and amounts of a deal's history
StagesAndAmounts(events) == [i \in DOMAIN events |-> <<events[i].stage, events[i].amount>>]

\* C7: on a deal row, with every spreadsheet call succeeding: a successful
\* transition to Received by manager with amount a on an empty history makes
\* get_current_stage return Received by manager; a further one to Transferred
\* to assistant with a makes get_deal_summary show transferred_to_assistant = a,
\* no discrepancy and In progress; a further one to Accepted by assistant with
\* b # a makes the discrepancies {assistant: a - b} and the status Discrepancy.
C7_EndToEnd ==
    [][(ret'.op = "process_stage_transition" /\ ret'.result) =>
        \A s \in SpecStages, b \in Amounts :
            Transition("O/L/1", s, b, 0, OkTransIO) =>
                LET before == StagesAndAmounts(get_cashflow_history(logSheet, "O/L/1", TRUE))
                    summary == get_deal_summary(logSheet', "O/L/1", OkReads)
                IN /\ (before = <<>> /\ s = STAGE_RECEIVED_BY_MANAGER) =>
                          get_current_stage(logSheet', "O/L/1", TRUE)
                              = STAGE_RECEIVED_BY_MANAGER
                   /\ (/\ before = << <<STAGE_RECEIVED_BY_MANAGER, b>> >>
                       /\ s = STAGE_TRANSFERRED_TO_ASSISTANT) =>
                          /\ summary.transferred_to_assistant = <<b>>
                          /\ DOMAIN summary.discrepancies = {}
                          /\ summary.status = STATUS_IN_PROGRESS
                   /\ \A a \in Amounts \ {b} :
                         (/\ before = << <<STAGE_RECEIVED_BY_MANAGER, a>>,
                                         <<STAGE_TRANSFERRED_TO_ASSISTANT, a>> >>
                          /\ s = STAGE_ACCEPTED_BY_ASSISTANT) =>
                             /\ DOMAIN summary.discrepancies = {"assistant"}
                             /\ summary.discrepancies["assistant"] = a - b
                             /\ summary.status = STATUS_DISCREPANCY]_vars

\* C7 witness: the third transition of the sequence has been stored and the
\* deal shows a discrepancy.
C7_Witness ==
    /\ ret.op = "process_stage_transition" /\ ret.result /\ ret.log_before = 2
    /\ \E a \in Amounts, b \in Amounts :
          /\ a # b
          /\ StagesAndAmounts(get_cashflow_history(logSheet, "O/L/1", TRUE))
                = << <<STAGE_RECEIVED_BY_MANAGER, a>>,
                     <<STAGE_TRANSFERRED_TO_ASSISTANT, a>>,
                     <<STAGE_ACCEPTED_BY_ASSISTANT, b>> >>
    /\ get_deal_summary(logSheet, "O/L/1", OkReads).status = STATUS_DISCREPANCY

-----------------------------------------------------------------------------
(* Claims about the functions of a stored history.                         *)

\* the successor of each stage in the two sequences
SuccessorPairs(skip_assistant) ==
    IF skip_assistant
    THEN {<<"Received by manager", "Transferred to owner">>,
          <<"Transferred to owner", "Accepted by owner">>}
    ELSE {<<"Received by manager", "Transferred to assistant">>,
          <<"Transferred to assistant", "Accepted by assistant">>,
          <<"Accepted by assistant", "Transferred to owner">>,
          <<"Transferred to owner", "Accepted by owner">>}

ActiveSequence(skip_assistant) ==
    IF skip_assistant
    THEN <<"Received by manager", "Transferred to owner", "Accepted by owner">>
    ELSE <<"Received by manager", "Transferred to assistant", "Accepted by assistant",
           "Transferred to owner", "Accepted by owner">>

\* C8: get_next_stage returns Received by manager for an absent stage, the next
\* member for a member of the active sequence but the last, and absent for the
\* last member and for a value outside the active sequence; a loop over it
\* from absent visits the active sequence in order and stops at its end.
C8_NextStage ==
    /\ ret.op = "get_next_stage" =>
          LET pairs == SuccessorPairs(ret.skip_assistant) IN
          IF ret.current_stage = None THEN ret.result = "Received by manager"
          ELSE IF \E p \in pairs : p[1] = ret.current_stage
               THEN <<ret.current_stage, ret.result>> \in pairs
               ELSE ret.result = None
    /\ (iter.running /\ iter.start = None) =>
          LET seq == ActiveSequence(iter.skip_assistant) IN
          /\ Len(iter.visited) <= Len(seq)
          /\ iter.visited = SubSeq(seq, 1, Len(iter.visited))
          /\ iter.done => iter.visited = seq

\* C8 witness: the loop with skip_assistant has visited the three stages and
\* stopped.
C8_Witness ==
    /\ iter.running /\ iter.done /\ iter.start = None /\ iter.skip_assistant
    /\ Len(iter.visited) = Len(SKIP_SEQUENCE)
    /\ ret.op = "get_next_stage" /\ ret.result = None

\* the rows of a deal and stage, as row numbers of the log
StageRows(log, deal_id, stage) ==
    {i \in 2..Len(log) : log[i][1] = deal_id /\ log[i][2] = stage}

\* the amount of the latest row of a deal and stage: the one with the greatest
\* stamp, the lowest in the sheet among equals; <<>> when there is none
LatestAmount(log, deal_id, stage) ==
    LET rows == StageRows(log, deal_id, stage) IN
    IF rows = {} THEN <<>>
    ELSE LET i == CHOOSE i \in rows :
                     \A j \in rows : log[j][6] < log[i][6] \/ (log[j][6] = log[i][6] /\ j <= i)
         IN IF log[i][5] = <<>> THEN <<0>> ELSE log[i][5]

\* the entry of a pair in the result: there exactly when both amounts exist
\* and differ, and then their difference
EntryIs(result, key, declared, accepted) ==
    /\ key \in DOMAIN result <=>
          (declared # <<>> /\ accepted # <<>> /\ declared[1] # accepted[1])
    /\ key \in DOMAIN result => result[key] = declared[1] - accepted[1]

\* C9: calculate_discrepancies has an entry "assistant", the latest Transferred
\* to assistant amount minus the latest Accepted by assistant amount, exactly
\* when both exist and differ, an entry "owner" likewise, and no other entry.
C9_Discrepancies ==
    ret.op = "calculate_discrepancies" =>
        IF ~ret.rd THEN DOMAIN ret.result = {}
        ELSE /\ DOMAIN ret.result \subseteq {"assistant", "owner"}
             /\ EntryIs(ret.result, "assistant",
                        LatestAmount(logSheet, ret.deal_id, "Transferred to assistant"),
                        LatestAmount(logSheet, ret.deal_id, "Accepted by assistant"))
             /\ EntryIs(ret.result, "owner",
                        LatestAmount(logSheet, ret.deal_id, "Transferred to owner"),
                        LatestAmount(logSheet, ret.deal_id, "Accepted by owner"))

\* C9 witness: an assistant discrepancy computed from a log whose later row of
\* a stage carries the earlier stamp and another amount.
C9_Witness ==
    /\ ret.op = "calculate_discrepancies" /\ ret.rd
    /\ DOMAIN ret.result = {"assistant"}
    /\ \E i \in 2..Len(logSheet), j \in 2..Len(logSheet) :
          /\ i < j /\ logSheet[i][2] = logSheet[j][2]
          /\ logSheet[i][6] > logSheet[j][6] /\ logSheet[i][5] # logSheet[j][5]

\* C10: the status of get_deal_summary is Complete exactly when the owner has
\* accepted and there is no discrepancy, Discrepancy exactly when there is a
\* discrepancy, and In progress otherwise; the owner has accepted exactly when
\* the log that was read holds an Accepted by owner row of the deal.
C10_SummaryStatus ==
    ret.op = "get_deal_summary" =>
        LET summary == ret.result IN
        /\ summary.status = STATUS_COMPLETE <=>
              (summary.accepted_by_owner # <<>> /\ DOMAIN summary.discrepancies = {})
        /\ summary.status = STATUS_DISCREPANCY <=> DOMAIN summary.discrepancies # {}
        /\ summary.status \in {STATUS_COMPLETE, STATUS_DISCREPANCY, STATUS_IN_PROGRESS}
        /\ ret.rd.hist =>
              (summary.accepted_by_owner # <<>>
                  <=> StageRows(logSheet, ret.deal_id, "Accepted by owner") # {})

\* C10 witness: the owner has accepted and the status is Discrepancy.
C10_Witness ==
    /\ ret.op = "get_deal_summary"
    /\ ret.result.accepted_by_owner # <<>>
    /\ ret.result.status = STATUS_DISCREPANCY


-----------------------------------------------------------------------------
(* bot/keyboards.py, bot/handlers.py.  A callback data string is kept as   *)
(* the sequence of its "_"-separated tokens, data.split("_"): "conf_3_8"   *)
(* is <<"conf", "3", "8">>, and no token holds a "_".  A keyboard is the   *)
(* set of the callback data of its buttons.  The texts of the messages are *)
(* left out, with the reads that only feed them.                           *)

\* "_".join(tokens)
RECURSIVE join(_)
join(tokens) ==
    IF tokens = <<>> THEN ""
    ELSE IF Len(tokens) = 1 THEN tokens[1]
    ELSE tokens[1] \o "_" \o join(Tail(tokens))

\* data.startswith(prefix + "_"), prefix a sequence of tokens
startswith(data, prefix) ==
    Len(data) > Len(prefix) /\ SubSeq(data, 1, Len(prefix)) = prefix

\* str(amount) of a float with a whole value
str_float(amount) == ToString(amount) \o ".0"

\* the strings the bot hashes: deal ids, stages, str(amount)
Hashed ==
    <<"O/L/1", "O/L/2">> \o STAGES \o [a \in 1..MaxAmount |-> str_float(a)]

\* hash(s): the values of one process, distinct on the strings the bot hashes
hash(s) == 1000000 + IndexOf(Hashed, s) + 1

\* the numbers a token of a button stands for
IntTokens == 0..(Len(Hashed) + 1)

\* int(token): <<>> when it raises ValueError
int(token) ==
    LET hits == {n \in IntTokens : ToString(n) = token}
    IN IF hits = {} THEN <<>> ELSE <<CHOOSE n \in hits : TRUE>>

\* get_deals_list_keyboard(deals, page), per_page = 10
get_deals_list_keyboard(deals, page) ==
    LET per_page == 10
        start_idx == page * per_page
        end_idx == start_idx + per_page
        last == IF end_idx < Len(deals) THEN end_idx ELSE Len(deals)
        page_deals == SubSeq(deals, start_idx + 1, last)
    IN {<<"deal", ToString(hash(page_deals[i].deal_id) % 1000000), ToString(page),
          ToString(i - 1)>> : i \in DOMAIN page_deals}
       \cup (IF page > 0 THEN {<<"deals", "page", ToString(page - 1)>>} ELSE {})
       \cup (IF end_idx < Len(deals) THEN {<<"deals", "page", ToString(page + 1)>>}
             ELSE {})
       \cup {<<"main", "menu">>}

\* get_deal_detail_keyboard(deal_id, user_role, current_stage, who_received_cash,
\* amount_received, transferred_to_assistant); NOT_RECEIVED stands for every
\* spelling that lower() turns into the text of the form
get_deal_detail_keyboard(deal_id, user_role, current_stage, who_received_cash, amount_received, transferred_to_assistant) ==
    LET deal_hash == ToString(hash(deal_id) % 1000000)
        conf(stage) == <<"conf", deal_hash, ToString(hash(stage) % 10000)>>
    IN (IF user_role = ROLE_MANAGER
        THEN IF /\ who_received_cash \notin {None, "", NOT_RECEIVED}
                /\ amount_received # <<>> /\ amount_received[1] # 0
             THEN {<<"transfer", deal_hash>>}
             ELSE {}
        ELSE IF user_role = ROLE_ASSISTANT
        THEN IF current_stage = STAGE_TRANSFERRED_TO_ASSISTANT
             THEN {conf(STAGE_ACCEPTED_BY_ASSISTANT)}
             ELSE IF current_stage = STAGE_ACCEPTED_BY_ASSISTANT \/ transferred_to_assistant
             THEN {conf(STAGE_TRANSFERRED_TO_OWNER)}
             ELSE {}
        ELSE IF user_role = ROLE_OWNER
        THEN IF current_stage = STAGE_TRANSFERRED_TO_OWNER
             THEN {conf(STAGE_ACCEPTED_BY_OWNER)}
             ELSE {}
        ELSE {})
       \cup {<<"hist", deal_hash>>, <<"my", "deals">>}

\* get_transfer_recipient_keyboard(deal_id)
get_transfer_recipient_keyboard(deal_id) ==
    LET deal_hash == ToString(hash(deal_id) % 1000000)
        stage_hash_assistant == ToString(hash(STAGE_TRANSFERRED_TO_ASSISTANT) % 10000)
        stage_hash_owner == ToString(hash(STAGE_TRANSFERRED_TO_OWNER) % 10000)
    IN {<<"conf", deal_hash, stage_hash_assistant>>,
        <<"conf", deal_hash, stage_hash_owner>>,
        <<"deal", deal_hash, "0", "0">>}

\* get_cancel_keyboard()
get_cancel_keyboard == {<<"cancel">>}

\* get_amount_confirmation_keyboard(amount)
get_amount_confirmation_keyboard(amount) ==
    {<<"confirm", "amount", ToString(hash(str_float(amount)) % 1000000)>>, <<"cancel">>}

\* validate_amount_string(amount_str): <<>> for None; the texts that float()
\* accepts are the numerals up to MaxAmount
validate_amount_string(amount_str) ==
    LET hits == {n \in 0..MaxAmount : ToString(n) = amount_str}
    IN IF hits = {} THEN <<>>
       ELSE LET amount == CHOOSE n \in hits : TRUE
            IN IF amount > 0 THEN <<amount>> ELSE <<>>

-----------------------------------------------------------------------------
(* bot/handlers.py.  Every spreadsheet call of a handler returns.          *)

\* the users of the bot, by Telegram id, and user.full_name
Users == {1, 2, 3}
full_name(u) == <<"Ivan Petrov", "Anna Orlova", "Oleg Serov">>[u]

\* a variant of Drop that clears the dict
Drop_every_key(f, k) == <<>>

\* a dict without the key k
Drop(f, k) == [x \in DOMAIN f \ {k} |-> f[x]]

\* the reads of get_cached_user_deals all return
OkUserDealsReads == [deals |-> TRUE, roles |-> TRUE, main |-> TRUE]

\* What a handler leaves behind: the pending confirmations, the caches, the
\* sheets, the keyboard of the message it sent last and the branch it took.
Outcome(ctx, dcache, rcache, deals, log, keyboard, branch) ==
    [user_context |-> ctx, deals_cache |-> dcache, roles_cache |-> rcache,
     dealSheet |-> deals, logSheet |-> log, keyboard |-> keyboard, branch |-> branch]

\* a branch that only sends a keyboard
Sends(rcache, keyboard, branch) ==
    Outcome(user_context, deals_cache, rcache, dealSheet, logSheet, keyboard, branch)

\* the except clause of callback_handler
Excepted(rcache) == Sends(rcache, get_main_menu_keyboard, "except")

\* the loop `for deal in deals: if hash(deal.deal_id) % 1000000 == deal_hash`
deal_by_hash(deals, deal_hash) ==
    LET hits == {i \in DOMAIN deals : hash(deals[i].deal_id) % 1000000 = deal_hash}
    IN IF hits = {} THEN None
       ELSE deals[CHOOSE i \in hits : \A j \in hits : i <= j].deal_id

\* the loop over the four stages a conf_ button may name
stage_by_hash(stage_hash) ==
    LET stages == <<STAGE_TRANSFERRED_TO_ASSISTANT, STAGE_ACCEPTED_BY_ASSISTANT,
                    STAGE_TRANSFERRED_TO_OWNER, STAGE_ACCEPTED_BY_OWNER>>
        hits == {i \in DOMAIN stages : hash(stages[i]) % 10000 = stage_hash}
    IN IF hits = {} THEN None ELSE stages[CHOOSE i \in hits : \A j \in hits : i <= j]

\* the search of the conf_ and transfer_ branches: all the deals of the cache,
\* then the deals of the user
find_deal(rcache, telegram_id, role, deal_hash) ==
    LET all_deals == get_cached_deals(deals_cache, dealSheet, FALSE, TRUE)
        in_all == deal_by_hash(all_deals.result, deal_hash)
        user_deals == get_cached_user_deals(all_deals.cache, rcache, dealSheet, rolesSheet,
                                            telegram_id, role, FALSE, OkUserDealsReads)
    IN IF in_all # None
       THEN [deal_id |-> in_all, deals_cache |-> all_deals.cache, roles_cache |-> rcache]
       ELSE [deal_id |-> deal_by_hash(user_deals.result, deal_hash),
             deals_cache |-> user_deals.deals_cache,
             roles_cache |-> user_deals.roles_cache]

\* the keyboard of show_deal_detail(query, deal_id, user_role_obj, telegram_id)
show_deal_detail(deal_id, user_role_obj) ==
    LET deal_data == get_deal_data_from_sheet(dealSheet, deal_id, TRUE)
        who_received_cash == IF deal_data # <<>> THEN deal_data[1].who_received_cash ELSE ""
        amount_received == IF deal_data # <<>> THEN deal_data[1].amount_received ELSE <<>>
        transferred_to_assistant ==
            IF deal_data # <<>> THEN deal_data[1].transferred_to_assistant ELSE FALSE
        current_stage == get_current_stage(logSheet, deal_id, TRUE)
    IN get_deal_detail_keyboard(deal_id, user_role_obj.role, current_stage,
                                who_received_cash, amount_received,
                                transferred_to_assistant)

\* user_role_obj.predstavites, or the Telegram name when it is empty
display_name(user_role_obj, u) ==
    IF user_role_obj.predstavites \notin {None, ""} THEN user_role_obj.predstavites
    ELSE full_name(u)

\* the dict the conf_ and confirm_ branches store: it has no "amount" key, which
\* reads as None, <<>>
Pending(deal_id, stage, user_role_obj, telegram_id, user_name) ==
    [deal_id |-> deal_id, stage |-> stage, user_role |-> user_role_obj,
     telegram_id |-> telegram_id, user_name |-> user_name, amount |-> <<>>]

\* data == "my_deals", and my_deals_command
my_deals(rcache, telegram_id, role, branch) ==
    LET deals == get_cached_user_deals(deals_cache, rcache, dealSheet, rolesSheet,
                                       telegram_id, role, FALSE, OkUserDealsReads)
    IN Outcome(user_context, deals.deals_cache, deals.roles_cache, dealSheet, logSheet,
               IF deals.result = <<>> THEN get_main_menu_keyboard
               ELSE get_deals_list_keyboard(deals.result, 0),
               branch)

\* data.startswith("deals_page_")
deals_page(rcache, telegram_id, role, data) ==
    LET page == int(data[Len(data)])
        deals == get_cached_user_deals(deals_cache, rcache, dealSheet, rolesSheet,
                                       telegram_id, role, FALSE, OkUserDealsReads)
    IN IF page = <<>> THEN Excepted(rcache)
       ELSE Outcome(user_context, deals.deals_cache, deals.roles_cache, dealSheet,
                    logSheet, get_deals_list_keyboard(deals.result, page[1]),
                    "deals_page")

\* data.startswith("deal_")
deal_branch(rcache, telegram_id, user_role_obj, data) ==
    IF Len(data) >= 4
    THEN IF int(data[2]) = <<>> \/ int(data[3]) = <<>> \/ int(data[4]) = <<>>
         THEN Excepted(rcache)
         ELSE LET deal_hash == int(data[2])[1]
                  page == int(data[3])[1]
                  idx == int(data[4])[1]
                  all_deals == get_cached_deals(deals_cache, dealSheet, FALSE, TRUE)
                  in_all == deal_by_hash(all_deals.result, deal_hash)
                  deals == get_cached_user_deals(all_deals.cache, rcache, dealSheet,
                                                 rolesSheet, telegram_id,
                                                 user_role_obj.role, FALSE,
                                                 OkUserDealsReads)
                  start_idx == page * 10
                  deal_id == IF in_all # None THEN in_all
                             ELSE IF start_idx + idx < Len(deals.result)
                             THEN deals.result[start_idx + idx + 1].deal_id
                             ELSE None
              IN Outcome(user_context,
                         IF in_all # None THEN all_deals.cache ELSE deals.deals_cache,
                         IF in_all # None THEN rcache ELSE deals.roles_cache,
                         dealSheet, logSheet,
                         IF deal_id # None THEN show_deal_detail(deal_id, user_role_obj)
                         ELSE get_main_menu_keyboard,
                         IF deal_id # None THEN "deal" ELSE "deal_not_found")
    ELSE Sends(rcache, show_deal_detail(join(Tail(data)), user_role_obj), "deal_legacy")

\* data.startswith("hist_") or data.startswith("history_")
hist_branch(rcache, telegram_id, user_role_obj, data) ==
    LET deal_hash == int(join(Tail(data)))
        deals == get_cached_user_deals(deals_cache, rcache, dealSheet, rolesSheet,
                                       telegram_id, user_role_obj.role, FALSE,
                                       OkUserDealsReads)
        legacy == ~startswith(data, <<"hist">>)
        deal_id == IF legacy THEN join(Tail(data))
                   ELSE deal_by_hash(deals.result, deal_hash[1])
        deal_data == get_deal_data_from_sheet(dealSheet, deal_id, TRUE)
    IN IF ~legacy /\ deal_hash = <<>> THEN Excepted(rcache)
       ELSE Outcome(user_context,
                    IF legacy THEN deals_cache ELSE deals.deals_cache,
                    IF legacy THEN rcache ELSE deals.roles_cache,
                    dealSheet, logSheet,
                    IF deal_id \notin {None, ""}
                    THEN get_deal_detail_keyboard(
                             deal_id, user_role_obj.role,
                             get_current_stage(logSheet, deal_id, TRUE),
                             IF deal_data # <<>> THEN deal_data[1].who_received_cash ELSE "",
                             IF deal_data # <<>> THEN deal_data[1].amount_received ELSE <<>>,
                             FALSE)
                    ELSE get_main_menu_keyboard,
                    IF deal_id \notin {None, ""} THEN "hist" ELSE "hist_not_found")

\* a variant of conf_branch that updates the dict of the user and so keeps the
\* amount it holds
conf_branch_updating_entry(rcache, u, telegram_id, user_role_obj, data) ==
    IF startswith(data, <<"conf">>)
    THEN IF Len(data) >= 3
         THEN IF int(data[2]) = <<>> \/ int(data[3]) = <<>> THEN Excepted(rcache)
              ELSE LET found == find_deal(rcache, telegram_id, user_role_obj.role,
                                          int(data[2])[1])
                       deal_id == found.deal_id
                       stage == IF deal_id # None THEN stage_by_hash(int(data[3])[1])
                                ELSE None
                   IN IF deal_id = None \/ stage = None
                      THEN Outcome(user_context, found.deals_cache, found.roles_cache,
                                   dealSheet, logSheet, get_main_menu_keyboard,
                                   "conf_not_found")
                      ELSE Outcome(Put(user_context, u,
                                       [Pending(deal_id, stage, user_role_obj, telegram_id,
                                                display_name(user_role_obj, u))
                                          EXCEPT !.amount =
                                             IF u \in DOMAIN user_context
                                             THEN user_context[u].amount ELSE <<>>]),
                                   found.deals_cache, found.roles_cache, dealSheet,
                                   logSheet, get_cancel_keyboard, "conf")
         ELSE Sends(rcache, get_main_menu_keyboard, "conf_format")
    ELSE \* parts = data.split("_", 2)
         IF Len(data) >= 3
         THEN Outcome(Put(user_context, u,
                          Pending(data[2], join(SubSeq(data, 3, Len(data))), user_role_obj,
                                  telegram_id, display_name(user_role_obj, u))),
                      deals_cache, rcache, dealSheet, logSheet, get_cancel_keyboard,
                      "confirm_legacy")
         ELSE Sends(rcache, get_main_menu_keyboard, "confirm_format")

\* data.startswith("conf_") or data.startswith("confirm_")
conf_branch(rcache, u, telegram_id, user_role_obj, data) ==
    IF startswith(data, <<"conf">>)
    THEN IF Len(data) >= 3
         THEN IF int(data[2]) = <<>> \/ int(data[3]) = <<>> THEN Excepted(rcache)
              ELSE LET found == find_deal(rcache, telegram_id, user_role_obj.role,
                                          int(data[2])[1])
                       deal_id == found.deal_id
                       stage == IF deal_id # None THEN stage_by_hash(int(data[3])[1])
                                ELSE None
                   IN IF deal_id = None \/ stage = None
                      THEN Outcome(user_context, found.deals_cache, found.roles_cache,
                                   dealSheet, logSheet, get_main_menu_keyboard,
                                   "conf_not_found")
                      ELSE Outcome(Put(user_context, u,
                                       Pending(deal_id, stage, user_role_obj, telegram_id,
                                               display_name(user_role_obj, u))),
                                   found.deals_cache, found.roles_cache, dealSheet,
                                   logSheet, get_cancel_keyboard, "conf")
         ELSE Sends(rcache, get_main_menu_keyboard, "conf_format")
    ELSE \* parts = data.split("_", 2)
         IF Len(data) >= 3
         THEN Outcome(Put(user_context, u,
                          Pending(data[2], join(SubSeq(data, 3, Len(data))), user_role_obj,
                                  telegram_id, display_name(user_role_obj, u))),
                      deals_cache, rcache, dealSheet, logSheet, get_cancel_keyboard,
                      "confirm_legacy")
         ELSE Sends(rcache, get_main_menu_keyboard, "confirm_format")

\* data.startswith("transfer_")
transfer_branch(rcache, telegram_id, user_role_obj, data) ==
    IF int(data[2]) = <<>> THEN Excepted(rcache)
    ELSE LET found == find_deal(rcache, telegram_id, user_role_obj.role, int(data[2])[1])
         IN Outcome(user_context, found.deals_cache, found.roles_cache, dealSheet,
                    logSheet,
                    IF found.deal_id # None
                    THEN get_transfer_recipient_keyboard(found.deal_id)
                    ELSE get_main_menu_keyboard,
                    IF found.deal_id # None THEN "transfer" ELSE "transfer_not_found")

\* data.startswith("confirm_amount_")
confirm_amount_branch(rcache, u, data) ==
    IF int(data[3]) = <<>> THEN Excepted(rcache)
    ELSE IF u \notin DOMAIN user_context
    THEN Sends(rcache, get_main_menu_keyboard, "confirm_amount_no_session")
    ELSE LET context_data == user_context[u]
             amount == context_data.amount
         IN IF amount = <<>> \/ hash(str_float(amount[1])) % 1000000 # int(data[3])[1]
            THEN Outcome(Drop(user_context, u), deals_cache, rcache, dealSheet, logSheet,
                         get_main_menu_keyboard, "confirm_amount_mismatch")
            ELSE LET r == process_stage_transition(
                              dealSheet, logSheet, context_data.deal_id,
                              context_data.stage, amount[1], context_data.user_name,
                              context_data.user_role.role, datetime_now(0), OkTransIO)
                 IN Outcome(Drop(user_context, u),
                            IF r.result THEN invalidate_cache(deals_cache) ELSE deals_cache,
                            IF r.result THEN invalidate_cache(rcache) ELSE rcache,
                            r.deals, r.log, get_main_menu_keyboard, "confirm_amount")

\* callback_handler, from the read of the role on: the chain of if and elif
\* over data, in its order; user_role_obj and rcache are what
\* get_cached_user_role returned and left in the cache; a data no branch
\* matches leaves the message as it is
callback_handler(u, data, user_role_obj, rcache) ==
    LET telegram_id == str_id(u)
    IN IF data = <<"main", "menu">>
       THEN Sends(rcache, get_main_menu_keyboard, "main_menu")
       ELSE IF data = <<"my", "deals">>
       THEN my_deals(rcache, telegram_id, user_role_obj.role, "my_deals")
       ELSE IF startswith(data, <<"deals", "page">>)
       THEN deals_page(rcache, telegram_id, user_role_obj.role, data)
       ELSE IF startswith(data, <<"deal">>)
       THEN deal_branch(rcache, telegram_id, user_role_obj, data)
       ELSE IF startswith(data, <<"hist">>) \/ startswith(data, <<"history">>)
       THEN hist_branch(rcache, telegram_id, user_role_obj, data)
       ELSE IF startswith(data, <<"conf">>) \/ startswith(data, <<"confirm">>)
       THEN conf_branch(rcache, u, telegram_id, user_role_obj, data)
       ELSE IF startswith(data, <<"transfer">>)
       THEN transfer_branch(rcache, telegram_id, user_role_obj, data)
       ELSE IF startswith(data, <<"confirm", "amount">>)
       THEN confirm_amount_branch(rcache, u, data)
       ELSE IF data = <<"cancel">>
       THEN Outcome(Drop(user_context, u), deals_cache, rcache, dealSheet, logSheet,
                    get_main_menu_keyboard, "cancel")
       ELSE Sends(rcache, shown[u], "none")

\* a variant of handle_amount_input that parses every text it is sent
handle_amount_input_reparsing(u, text) ==
    IF u \notin DOMAIN user_context
    THEN [user_context |-> user_context, keyboard |-> {}, branch |-> "no_session"]
    ELSE LET amount == validate_amount_string(text) IN
         IF amount = <<>>
         THEN [user_context |-> user_context, keyboard |-> get_cancel_keyboard,
               branch |-> "invalid_amount"]
         ELSE [user_context |-> [user_context EXCEPT ![u].amount = amount],
               keyboard |-> get_amount_confirmation_keyboard(amount[1]),
               branch |-> "amount_stored"]

\* handle_amount_input: the pending confirmations, the keyboard of the reply
\* (none when the session is gone) and the branch
handle_amount_input(u, text) ==
    IF u \notin DOMAIN user_context
    THEN [user_context |-> user_context, keyboard |-> {}, branch |-> "no_session"]
    ELSE LET context_data == user_context[u] IN
         IF context_data.amount # <<>>
         THEN [user_context |-> user_context,
               keyboard |-> get_amount_confirmation_keyboard(context_data.amount[1]),
               branch |-> "amount_known"]
         ELSE LET amount == validate_amount_string(text) IN
              IF amount = <<>>
              THEN [user_context |-> user_context, keyboard |-> get_cancel_keyboard,
                    branch |-> "invalid_amount"]
              ELSE [user_context |-> [user_context EXCEPT ![u].amount = amount],
                    keyboard |-> get_amount_confirmation_keyboard(amount[1]),
                    branch |-> "amount_stored"]

-----------------------------------------------------------------------------
(* SpecBot: the handlers of the bot, driven by three users who press the   *)
(* buttons of the keyboard they were sent last and type amounts.           *)

\* the roles sheet: a manager who introduced himself as Ivan, an assistant, an owner
BotRoles ==
    <<ROLES_HEADERS,
      <<"Ivan Petrov", "Ivan", "1", ROLE_MANAGER>>,
      <<"Anna Orlova", "", "2", ROLE_ASSISTANT>>,
      <<"Oleg Serov", "", "3", ROLE_OWNER>> >>

\* the stages the sheets may hold for the deal when the process starts
MaxPreloaded == 4

\* the sheets after the first n stages of the sequence were recorded for the
\* deal of the form, each with the amount 1
RECURSIVE Preloaded(_)
Preloaded(n) ==
    IF n = 0
    THEN [deals |-> <<FormRow("O/L/1", "Ivan", "Ivan", <<1>>)>>, log |-> <<LOG_HEADERS>>]
    ELSE LET before == Preloaded(n - 1)
         IN process_stage_transition(before.deals, before.log, "O/L/1", STAGES[n], 1,
                                     "Ivan", ConfirmingRole(STAGES[n]),
                                     [sec |-> 0, sub |-> 0], OkTransIO)

InitBot ==
    /\ \E n \in 0..MaxPreloaded :
          /\ dealSheet = Preloaded(n).deals
          /\ logSheet = Preloaded(n).log
    /\ rolesSheet = BotRoles
    /\ InitRest

\* /my_deals from the user u
MyDealsCommand(u) ==
    /\ LET telegram_id == str_id(u)
           role_read == get_cached_user_role(roles_cache, rolesSheet, telegram_id, FALSE,
                                             TRUE)
           r == my_deals(role_read.cache, telegram_id, role_read.result.role,
                         "my_deals_command")
       IN /\ deals_cache' = r.deals_cache
          /\ roles_cache' = r.roles_cache
          /\ shown' = Put(shown, u, r.keyboard)
          /\ ret' = [op |-> "my_deals_command"]
    /\ UNCHANGED <<rentalSheet, now, logSheet, dealSheet, rolesSheet, user_context, iter>>

\* the user u presses the button with the callback data
Callback(u, data) ==
    /\ u \in DOMAIN shown
    /\ data \in shown[u]
    /\ \E role_read \in {get_cached_user_role(roles_cache, rolesSheet, str_id(u), FALSE,
                                                TRUE)} :
       \E r \in {callback_handler(u, data, role_read.result, role_read.cache)} :
          /\ user_context' = r.user_context
          /\ deals_cache' = r.deals_cache
          /\ roles_cache' = r.roles_cache
          /\ dealSheet' = r.dealSheet
          /\ logSheet' = r.logSheet
          /\ shown' = Put(shown, u, r.keyboard)
          /\ ret' = [op |-> "callback_handler"]
    /\ UNCHANGED <<rentalSheet, now, rolesSheet, iter>>

\* the largest amount a user types
MaxTyped == 1

\* the texts a user types: a zero, the numerals of the amounts, a word
AmountTexts == {ToString(n) : n \in 0..MaxTyped} \cup {"abc"}

\* the user u sends the text
AmountInput(u, text) ==
    /\ LET r == handle_amount_input(u, text)
       IN /\ user_context' = r.user_context
          /\ shown' = Put(shown, u, r.keyboard)
          /\ ret' = [op |-> "handle_amount_input"]
    /\ UNCHANGED <<rentalSheet, now, logSheet, dealSheet, rolesSheet, deals_cache, roles_cache, iter>>

\* the buttons of the keyboards the users were sent last
Buttons == UNION {shown[u] : u \in DOMAIN shown}

NextBot ==
    \/ \E u \in Users : StartCommand(u, full_name(u), OkRolesIO, TRUE)
    \/ \E u \in Users : MyDealsCommand(u)
    \/ \E u \in Users, data \in Buttons : Callback(u, data)
    \/ \E u \in Users, text \in AmountTexts : AmountInput(u, text)

SpecBot == InitBot /\ [][NextBot]_vars

-----------------------------------------------------------------------------
(* Claims about the handlers of the bot.                                   *)

\* the callback data of the button that confirms the amount a
confirm_amount_data(a) ==
    <<"confirm", "amount", ToString(hash(str_float(a)) % 1000000)>>

\* the branch of callback_handler that handles the data the user u sends
HandledBy(u, data) ==
    LET role_read == get_cached_user_role(roles_cache, rolesSheet, str_id(u), FALSE, TRUE)
    IN callback_handler(u, data, role_read.result, role_read.cache).branch

\* C2: a confirm_amount_{h} callback of a user whose pending confirmation holds
\* an entered amount with the hash h is handled by the amount-confirmation
\* step, which executes the stage transition for the pending deal, stage and
\* amount; it is not handled as a legacy confirm_{dealId}_{stage} request and
\* leaves no pending confirmation created or overwritten.
C2_ConfirmAmountDispatch ==
    [][\A u \in Users, a \in Amounts :
          (/\ u \in DOMAIN user_context
           /\ user_context[u].amount = <<a>>
           /\ Callback(u, confirm_amount_data(a)))
          => LET pending == user_context[u]
                 done == process_stage_transition(
                             dealSheet, logSheet, pending.deal_id, pending.stage, a,
                             pending.user_name, pending.user_role.role,
                             datetime_now(0), OkTransIO)
             IN /\ HandledBy(u, confirm_amount_data(a)) = "confirm_amount"
                /\ logSheet' = done.log
                /\ dealSheet' = done.deals
                /\ u \notin DOMAIN user_context']_vars

\* C4: after a confirm_amount_{h} callback of a user who had a pending
\* confirmation, whatever its outcome, the user has no pending confirmation.
C4_PendingDeleted ==
    [][\A u \in Users, a \in Amounts :
          (u \in DOMAIN user_context /\ Callback(u, confirm_amount_data(a)))
          => u \notin DOMAIN user_context']_vars

\* the stage that follows the current stage of a deal of the sheet; the
\* sequence skips the assistant when the owner received the cash
SuccessorStage(deal_id) ==
    LET deal_data == get_deal_data_from_sheet(dealSheet, deal_id, TRUE)
    IN get_next_stage(get_current_stage(logSheet, deal_id, TRUE),
                      deal_data # <<>> /\ deal_data[1].who_received_cash = "owner")

\* C6: a keyboard offers a stage-confirmation button for a stage only when the
\* stage is the immediate successor of the current stage of the deal.
C6_OnlySuccessorOffered ==
    \A u \in DOMAIN shown : \A data \in shown[u] :
        data[1] = "conf" =>
            \E d \in DealIds :
                /\ SuccessorStage(d) # None
                /\ data = <<"conf", ToString(hash(d) % 1000000),
                            ToString(hash(SuccessorStage(d)) % 10000)>>

-----------------------------------------------------------------------------
(* sheets/operations.py: the per-user list and the debt summary, read from *)
(* the deal sheet.                                                          *)

\* the loop of get_user_deals over all_values[1:], from data row idx on
RECURSIVE user_deals_loop(_, _, _, _)
user_deals_loop(sheet, idx, role, predstavites_name) ==
    IF idx > Len(sheet) THEN <<>>
    ELSE LET deal == _parse_deal_from_row(sheet[idx], idx)
         IN (IF deal # <<>> /\ ~deal[1].all_cashless
                   /\ row_shown(sheet[idx], role, predstavites_name)
             THEN deal ELSE <<>>)
            \o user_deals_loop(sheet, idx + 1, role, predstavites_name)

\* get_user_deals(telegram_id, role); rd.roles, rd.main: the read of get_user_role
\* and the read of the deal sheet return
get_user_deals(deals, roles, telegram_id, role, rd) ==
    LET user_role_obj == get_user_role(roles, telegram_id, rd.roles)
    IN IF ~rd.main \/ deals = <<>> THEN <<>>
       ELSE user_deals_loop(deals, 1, role, user_role_obj.predstavites)

\* an amount that counts a blank or rejected cell as 1
debt_amount_default_one(cell) == IF parse_amount(cell) = <<>> THEN 1 ELSE parse_amount(cell)[1]

\* amount = 0.0, replaced by the number of the cell when float() accepts it
debt_amount(cell) == IF parse_amount(cell) = <<>> THEN 0 ELSE parse_amount(cell)[1]

\* one turn of the loop of get_debt_summary: the dict after the row
debt_add(debt_by_manager, row) ==
    IF is_yes(row.all_cashless) THEN debt_by_manager
    ELSE IF lower(row.who_received_cash) \in {lower(NOT_RECEIVED), ""} THEN debt_by_manager
    ELSE IF is_yes(row.transferred_to_owner) /\ is_yes(row.owner_accepted)
    THEN debt_by_manager
    ELSE IF ~(debt_amount(row.amount_received) > 0) THEN debt_by_manager
    ELSE LET manager_name == row.name
             old == IF manager_name \in DOMAIN debt_by_manager
                    THEN debt_by_manager[manager_name]
                    ELSE [total_debt |-> 0, deals_count |-> 0, deals |-> <<>>]
         IN Put(debt_by_manager, manager_name,
                [total_debt |-> old.total_debt + debt_amount(row.amount_received),
                 deals_count |-> old.deals_count + 1,
                 deals |-> Append(old.deals,
                                  [deal_id |-> _build_deal_id(row),
                                   amount |-> debt_amount(row.amount_received),
                                   who_received |-> row.who_received_cash])])

RECURSIVE debt_loop(_, _, _)
debt_loop(sheet, idx, debt_by_manager) ==
    IF idx > Len(sheet) THEN debt_by_manager
    ELSE debt_loop(sheet, idx + 1, debt_add(debt_by_manager, sheet[idx]))

\* get_debt_summary(): the dict manager name -> entry, <<>> for {}
get_debt_summary(sheet, rd) == IF ~rd \/ sheet = <<>> THEN <<>> ELSE debt_loop(sheet, 1, <<>>)

-----------------------------------------------------------------------------
(* SpecCache: a caller of get_cached_deals and invalidate_cache on a deal   *)
(* sheet that stage transitions rewrite between the calls.  The caller      *)
(* notes in iter every call it made: when, with which arguments, on which   *)
(* sheet, how many spreadsheet reads it caused and what it returned.        *)

\* how many lifetimes of a cache entry the clock of SpecCache runs through
MaxTtlWindows == 1

\* how many calls of get_cached_deals the caller notes
MaxCalls == 3

\* The instants of SpecCache: the start of each lifetime and CACHE_TTL seconds later,
\* so that two instants are exactly CACHE_TTL apart and two are one second more.
CacheInstants == {k * (CACHE_TTL + 1) + j : k \in 0..MaxTtlWindows, j \in {0, CACHE_TTL}}

CacheTick ==
    /\ \E t \in CacheInstants : t > now /\ now' = t
    /\ ret' = [op |-> "tick"]
    /\ UNCHANGED <<logSheet, dealSheet, rolesSheet, rentalSheet, deals_cache, roles_cache,
                   user_context, shown, iter>>

\* the caller calls get_cached_deals(force_refresh) and notes the call
CachedDealsCall(force_refresh, rd) ==
    /\ Len(iter.calls) < MaxCalls
    /\ LET r == get_cached_deals(deals_cache, dealSheet, force_refresh, rd)
       IN /\ deals_cache' = r.cache
          /\ ret' = [op |-> "get_cached_deals", result |-> Len(r.result)]
          /\ iter' = [iter EXCEPT
                 !.calls = Append(@, [time |-> now, force_refresh |-> force_refresh,
                                      rd |-> rd, sheet |-> dealSheet,
                                      invalidated |-> iter.invalidated,
                                      loads |-> r.loads, result |-> r.result]),
                 !.invalidated = FALSE]
    /\ UNCHANGED <<now, logSheet, dealSheet, rolesSheet, rentalSheet, roles_cache,
                   user_context, shown>>

\* the caller calls invalidate_cache() and notes it
InvalidateCall ==
    /\ deals_cache' = invalidate_cache(deals_cache)
    /\ roles_cache' = invalidate_cache(roles_cache)
    /\ iter' = [iter EXCEPT !.invalidated = TRUE]
    /\ ret' = [op |-> "invalidate_cache"]
    /\ UNCHANGED <<now, logSheet, dealSheet, rolesSheet, rentalSheet, user_context, shown>>

InitCache ==
    /\ logSheet = <<LOG_HEADERS>>
    /\ dealSheet = <<TheDeal>>
    /\ rolesSheet = <<>>
    /\ rentalSheet = <<>>
    /\ now = 0
    /\ deals_cache = NoDealsCache
    /\ roles_cache = NoRolesCache
    /\ user_context = <<>>
    /\ shown = <<>>
    /\ iter = [running |-> FALSE, calls |-> <<>>, invalidated |-> FALSE]
    /\ ret = [op |-> "start"]

NextCache ==
    \/ CacheTick
    \/ \E force_refresh \in BOOLEAN : CachedDealsCall(force_refresh, TRUE)
    \/ CachedDealsCall(FALSE, FALSE)
    \/ InvalidateCall
    \/ Transition(TheDeal.deal_id, STAGE_TRANSFERRED_TO_ASSISTANT, 1, 0, OkTransIO)

SpecCache == InitCache /\ [][NextCache]_vars

-----------------------------------------------------------------------------
(* SpecLists: get_user_deals and get_debt_summary applied to drawn deal    *)
(* sheets, for the users of one roles sheet.                                *)

\* the rows of a drawn deal sheet
MaxRows == 2

\* four managers: introduced as Ivan, with a blank introduced name, introduced as
\* Petr, with an introduced name of one blank
ListRoles ==
    <<ROLES_HEADERS,
      <<"Ivan Petrov", "Ivan", "1", ROLE_MANAGER>>,
      <<"Oleg Orlov", "", "2", ROLE_MANAGER>>,
      <<"Petr Sidorov", "Petr", "3", ROLE_MANAGER>>,
      <<"Anna Serova", " ", "4", ROLE_MANAGER>> >>

\* the three flag cells of a row: as the bot writes them, and as a person may
ListFlags ==
    {<<"", "", "">>, <<"Yes", "", "">>, <<"Yes", "Yes", "">>, <<"Yes", "Yes", "Yes">>,
     <<"", " Yes", "YES">>, <<"No", "True", "">>}

\* the first row drawn
ListRows ==
    {[deal_id |-> "O/L/1", name |-> n, all_cashless |-> c, who_received_cash |-> w,
      amount_received |-> a, transferred_to_assistant |-> f[1],
      transferred_to_owner |-> f[2], owner_accepted |-> f[3],
      amount_accepted |-> <<>>, difference |-> <<>>] :
        n \in {"Ivan", ""}, c \in {"No", "Yes"},
        w \in {"", NOT_RECEIVED, "NOT RECEIVED", "Ivan", "IVAN", "Petr"},
        a \in {<<>>, <<0>>, <<1>>, TEXT_CELL}, f \in ListFlags}

\* the rows under it: a second deal of Ivan, and a row the form left blank
ListTails ==
    {<<>>, <<FormRow("O/L/2", "Ivan", "IVAN", <<2>>)>>, <<FormRow("//", "", "", <<>>)>>}

ListSheets == {<<r>> \o t : r \in ListRows, t \in {t \in ListTails : Len(t) < MaxRows}}

\* the reads of get_user_deals: of the roles sheet, of the deal sheet
OkListReads == [roles |-> TRUE, main |-> TRUE]
ListReads == {OkListReads, [OkListReads EXCEPT !.roles = FALSE],
              [OkListReads EXCEPT !.main = FALSE]}

\* a caller of get_user_deals
GetUserDeals(telegram_id, role, rd) ==
    /\ ret' = [op |-> "get_user_deals", telegram_id |-> telegram_id, role |-> role,
               rd |-> rd,
               result |-> get_user_deals(dealSheet, rolesSheet, telegram_id, role, rd)]
    /\ UNCHANGED <<now, logSheet, dealSheet, rolesSheet, rentalSheet, deals_cache,
                   roles_cache, user_context, shown, iter>>

\* a caller of get_debt_summary
GetDebtSummary(rd) ==
    /\ ret' = [op |-> "get_debt_summary", rd |-> rd,
               result |-> get_debt_summary(dealSheet, rd)]
    /\ UNCHANGED <<now, logSheet, dealSheet, rolesSheet, rentalSheet, deals_cache,
                   roles_cache, user_context, shown, iter>>

InitLists ==
    /\ logSheet = <<LOG_HEADERS>>
    /\ dealSheet \in ListSheets
    /\ rolesSheet = ListRoles
    /\ InitRest

NextLists ==
    \/ \E telegram_id \in {"1", "2", "3", "4", "9"}, rd \in ListReads :
           GetUserDeals(telegram_id, ROLE_MANAGER, rd)
    \/ \E role \in {ROLE_OWNER, ROLE_ASSISTANT, ROLE_NULL, "Admin"}, rd \in ListReads :
           GetUserDeals("1", role, rd)
    \/ \E rd \in BOOLEAN : GetDebtSummary(rd)

SpecLists == InitLists /\ [][NextLists]_vars

-----------------------------------------------------------------------------
(* SpecAccept: stage transitions, in any order and with faults, on the deal *)
(* of the form at each point of its way to the owner.                       *)

\* the faults of a transition: none, a failed read of the deal sheet, a failed first
\* update_cell, three failed appends to the log
AcceptIOCases ==
    {OkTransIO, [OkTransIO EXCEPT !.main_rd = FALSE], [OkTransIO EXCEPT !.upd_fail = 1],
     [OkTransIO EXCEPT !.log = [OkLogIO EXCEPT !.wr = <<FALSE, FALSE, FALSE>>]]}

InitAccept ==
    /\ logSheet = <<LOG_HEADERS>>
    /\ \E n \in 0..MaxPreloaded : dealSheet = Preloaded(n).deals
    /\ rolesSheet = BotRoles
    /\ InitRest

NextAccept ==
    \E s \in Range(STAGES), a \in Amounts, io \in AcceptIOCases :
        Transition("O/L/1", s, a, 0, io)

SpecAccept == InitAccept /\ [][NextAccept]_vars

-----------------------------------------------------------------------------
(* SpecRoles: /start, add_user_to_roles and the reads of a user's role on   *)
(* drawn roles sheets.                                                      *)

\* the rows drawn for user 1: entered by the bot and not yet named, given a role by
\* hand, left with a blank role cell, given a role the bot does not know, cut short
RolesRows1 ==
    {<<"", "", "1", ROLE_NULL>>, <<"", "Ivan", "1", ROLE_MANAGER>>,
     <<"Ivan Petrov", "Ivan", "1", "">>, <<"Ivan Petrov", "Ivan", "1", "Admin">>,
     <<"Ivan Petrov", "Ivan", "1">>}

\* the roles sheets drawn: empty; the standard header over no row, over one of the
\* rows of user 1, with the owner's row under it or not; a header without the id
\* column; a header without the role column
RolesSheets ==
    {<<>>, <<ROLES_HEADERS>>}
    \cup {<<ROLES_HEADERS, r>> \o t : r \in RolesRows1, t \in {<<>>, << <<"Oleg Serov", "", "2", ROLE_OWNER>> >>}}
    \cup {<< <<"Name", "Introduce yourself", "ROLE">>, <<"Ivan Petrov", "Ivan", ROLE_MANAGER>> >>,
          << <<"Name", "TELEGRAM ID">>, <<"", "1">> >>}

\* a caller of add_user_to_roles; the caller notes the sheet it found
AddUserToRoles(telegram_id, name, io) ==
    /\ LET added == add_user_to_roles(rolesSheet, telegram_id, name, io)
       IN /\ rolesSheet' = added.sheet
          /\ ret' = [op |-> "add_user_to_roles", telegram_id |-> telegram_id,
                     name |-> name, io |-> io, result |-> added.result,
                     before |-> rolesSheet]
    /\ UNCHANGED <<now, logSheet, dealSheet, rentalSheet, deals_cache, roles_cache,
                   user_context, shown, iter>>

\* a caller of get_user_role
GetUserRole(telegram_id, rd) ==
    /\ ret' = [op |-> "get_user_role", telegram_id |-> telegram_id, rd |-> rd,
               result |-> get_user_role(rolesSheet, telegram_id, rd)]
    /\ UNCHANGED <<now, logSheet, dealSheet, rolesSheet, rentalSheet, deals_cache,
                   roles_cache, user_context, shown, iter>>

\* a caller of get_cached_user_role
GetCachedUserRole(telegram_id, force_refresh, rd) ==
    /\ LET r == get_cached_user_role(roles_cache, rolesSheet, telegram_id, force_refresh, rd)
       IN /\ roles_cache' = r.cache
          /\ ret' = [op |-> "get_cached_user_role", telegram_id |-> telegram_id,
                     rd |-> rd, result |-> r.result]
    /\ UNCHANGED <<now, logSheet, dealSheet, rolesSheet, rentalSheet, deals_cache,
                   user_context, shown, iter>>

InitRoles ==
    /\ logSheet = <<LOG_HEADERS>>
    /\ dealSheet = <<>>
    /\ rolesSheet \in RolesSheets
    /\ InitRest

NextRoles ==
    \/ \E u \in {1, 3}, io \in RolesIO : AddUserToRoles(str_id(u), "Ivan P.", io)
    \/ \E u \in {1, 3}, rd \in BOOLEAN : StartCommand(u, "Ivan P.", OkRolesIO, rd)
    \/ \E u \in {1, 3}, rd \in BOOLEAN : GetUserRole(str_id(u), rd)
    \/ \E u \in {1, 3}, rd \in BOOLEAN : GetCachedUserRole(str_id(u), FALSE, rd)
    \/ InvalidateCache

SpecRoles == InitRoles /\ [][NextRoles]_vars

-----------------------------------------------------------------------------
(* SpecRetry: the loop of retry_operation, one step at a time, for every    *)
(* max_retries up to MaxAttempts and every outcome of the calls of func.    *)
(* iter holds the frame of the call: pc, attempt, and the trace of what the *)
(* loop has done: "ok" a call of func that returned, "fail" one that        *)
(* raised, "sleep" a time.sleep(delay).                                     *)

\* the largest max_retries drawn
MaxAttempts == 4

RetryFrames ==
    {[running |-> TRUE, max_retries |-> m, outs |-> o, attempt |-> 0, trace |-> <<>>,
      pc |-> IF m = 0 THEN "returned" ELSE "call"] :
        m \in 0..MaxAttempts, o \in UNION {[1..n -> BOOLEAN] : n \in 0..MaxAttempts}}

\* a loop that goes on to the next attempt after a call that returned
RetryCall_ignoring_success ==
    /\ iter.running /\ iter.pc = "call"
    /\ LET ok == iter.outs[iter.attempt + 1]
       IN iter' = [iter EXCEPT
                     !.trace = Append(@, IF ok THEN "ok" ELSE "fail"),
                     !.pc = IF iter.attempt = iter.max_retries - 1
                            THEN (IF ok THEN "returned" ELSE "raised")
                            ELSE "sleep"]
    /\ ret' = [op |-> "func"]
    /\ UNCHANGED <<now, logSheet, dealSheet, rolesSheet, rentalSheet, deals_cache,
                   roles_cache, user_context, shown>>

\* try: return func() / except: if attempt == max_retries - 1: raise
RetryCall ==
    /\ iter.running /\ iter.pc = "call"
    /\ LET ok == iter.outs[iter.attempt + 1]
       IN iter' = [iter EXCEPT
                     !.trace = Append(@, IF ok THEN "ok" ELSE "fail"),
                     !.pc = IF ok THEN "returned"
                            ELSE IF iter.attempt = iter.max_retries - 1 THEN "raised"
                            ELSE "sleep"]
    /\ ret' = [op |-> "func"]
    /\ UNCHANGED <<now, logSheet, dealSheet, rolesSheet, rentalSheet, deals_cache,
                   roles_cache, user_context, shown>>

\* time.sleep(delay), and the next attempt of range(max_retries)
RetrySleep ==
    /\ iter.running /\ iter.pc = "sleep"
    /\ iter' = [iter EXCEPT !.trace = Append(@, "sleep"), !.attempt = @ + 1,
                            !.pc = "call"]
    /\ ret' = [op |-> "sleep"]
    /\ UNCHANGED <<now, logSheet, dealSheet, rolesSheet, rentalSheet, deals_cache,
                   roles_cache, user_context, shown>>

InitRetry ==
    /\ iter \in {f \in RetryFrames : DOMAIN f.outs = 1..f.max_retries}
    /\ logSheet = <<LOG_HEADERS>>
    /\ dealSheet = <<>>
    /\ rolesSheet = <<>>
    /\ rentalSheet = <<>>
    /\ now = 0
    /\ deals_cache = NoDealsCache
    /\ roles_cache = NoRolesCache
    /\ user_context = <<>>
    /\ shown = <<>>
    /\ ret = [op |-> "retry_operation"]

NextRetry == RetryCall \/ RetrySleep

SpecRetry == InitRetry /\ [][NextRetry]_vars

\* the loop is not suspended for ever: a call of func returns or raises, a sleep ends
SpecRetryFair == SpecRetry /\ WF_vars(NextRetry)

-----------------------------------------------------------------------------
(* The rental reference sheet.  A row is the list of its cells: legal       *)
(* entity, address, spot number, next payment date, payment, responsible,   *)
(* paid this month.  A date is a record of year, month and day; a date cell *)
(* is the list of the characters strftime writes, <<>> when blank.          *)

\* the sheet names src/config.py defines
CONFIG_SHEETS == {"SHEET_MAIN", "SHEET_ROLES", "SHEET_CASHFLOW_LOG"}

\* reading config.<name>: an AttributeError when the module has no such name
config_has(name) == name \in CONFIG_SHEETS

RENTAL_COL_ADDRESS == 1
RENTAL_COL_MM == 2
RENTAL_COL_NEXT_PAYMENT_DATE == 3

is_leap(year) == (year % 4 = 0 /\ year % 100 # 0) \/ year % 400 = 0

days_in_month(year, month) ==
    IF month = 2 THEN (IF is_leap(year) THEN 29 ELSE 28)
    ELSE IF month \in {4, 6, 9, 11} THEN 30 ELSE 31

next_day(d) ==
    IF d.day < days_in_month(d.year, d.month) THEN [d EXCEPT !.day = @ + 1]
    ELSE IF d.month < 12 THEN [d EXCEPT !.day = 1, !.month = @ + 1]
    ELSE [year |-> d.year + 1, month |-> 1, day |-> 1]

RECURSIVE add_days(_, _)
\* payment_date + timedelta(days=n)
add_days(d, n) == IF n = 0 THEN d ELSE add_days(next_day(d), n - 1)

digit(n) == <<"0", "1", "2", "3", "4", "5", "6", "7", "8", "9">>[n + 1]

two_digits(n) == <<digit(n \div 10), digit(n % 10)>>

\* strftime("%d.%m.%y"): the year loses its century
strftime_dmy(d) == two_digits(d.day) \o <<".">> \o two_digits(d.month) \o <<".">> \o two_digits(d.year % 100)

\* the row is long enough and its address and spot number are the asked ones
rental_match(row, address, mm_number) ==
    /\ Len(row) > RENTAL_COL_MM
    /\ lower(strip(row[RENTAL_COL_ADDRESS + 1])) = lower(address)
    /\ lower(strip(row[RENTAL_COL_MM + 1])) = lower(mm_number)

\* the body under client.get_worksheet: io.rd get_all_values, io.wr update_cell
rental_update(sheet, address, mm_number, payment_date, io) ==
    IF ~io.rd \/ sheet = <<>>
    THEN [sheet |-> sheet, result |-> FALSE]
    ELSE LET found == {i \in DOMAIN sheet : rental_match(sheet[i], address, mm_number)}
         IN IF found = {} \/ ~io.wr
            THEN [sheet |-> sheet, result |-> FALSE]
            ELSE LET idx == CHOOSE i \in found : \A j \in found : i <= j
                     next_payment_str == strftime_dmy(add_days(payment_date, 30))
                 IN [sheet |-> [sheet EXCEPT ![idx][RENTAL_COL_NEXT_PAYMENT_DATE + 1] = next_payment_str],
                     result |-> TRUE]

\* config.SHEET_RENTAL_REFERENCE is read first; io.ws is client.get_worksheet
update_rental_payment_date(sheet, address, mm_number, payment_date, io) ==
    IF ~config_has("SHEET_RENTAL_REFERENCE") \/ ~io.ws
    THEN [sheet |-> sheet, result |-> FALSE]
    ELSE rental_update(sheet, address, mm_number, payment_date, io)

PaidOnDates ==
    {[year |-> 2024, month |-> 1, day |-> 31], [year |-> 2023, month |-> 1, day |-> 31],
     [year |-> 2024, month |-> 12, day |-> 15], [year |-> 2024, month |-> 6, day |-> 1],
     [year |-> 2099, month |-> 12, day |-> 31]}

RentalRows ==
    {<<"LLC", a, m, d, "1", "Ivan", "Yes">> :
        a \in {"Lenina", " Lenina", "LENINA", "Mira"}, m \in {"1", "2"},
        d \in {<<>>, strftime_dmy([year |-> 2024, month |-> 1, day |-> 15])}}
    \cup {<<"LLC", "Lenina">>}

RentalSheets == UNION {[1..n -> RentalRows] : n \in 0..MaxRows}

OkRentalIO == [ws |-> TRUE, rd |-> TRUE, wr |-> TRUE]

RentalIO == {OkRentalIO, [OkRentalIO EXCEPT !.ws = FALSE], [OkRentalIO EXCEPT !.rd = FALSE], [OkRentalIO EXCEPT !.wr = FALSE]}

UpdateRentalPaymentDate(address, mm_number, payment_date, io) ==
    /\ \E r \in {update_rental_payment_date(rentalSheet, address, mm_number, payment_date, io)} :
         /\ rentalSheet' = r.sheet
         /\ ret' = [op |-> "update_rental_payment_date", address |-> address,
                    mm_number |-> mm_number, payment_date |-> payment_date, io |-> io,
                    before |-> rentalSheet, result |-> r.result]
    /\ UNCHANGED <<now, logSheet, dealSheet, rolesSheet, deals_cache, roles_cache,
                   user_context, shown, iter>>

InitRental ==
    /\ rentalSheet \in RentalSheets
    /\ logSheet = <<LOG_HEADERS>>
    /\ dealSheet = <<>>
    /\ rolesSheet = <<>>
    /\ now = 0
    /\ deals_cache = NoDealsCache
    /\ roles_cache = NoRolesCache
    /\ user_context = <<>>
    /\ shown = <<>>
    /\ iter = <<>>
    /\ ret = [op |-> "init"]

NextRental ==
    \E address \in {"Lenina", "Mira"}, mm_number \in {"1"}, payment_date \in PaidOnDates, io \in RentalIO :
        UpdateRentalPaymentDate(address, mm_number, payment_date, io)

SpecRental == InitRental /\ [][NextRental]_vars

-----------------------------------------------------------------------------
(* SpecFaults: the functions of the lower layers called with spreadsheet    *)
(* calls that raise.  ret holds the call: failed says that a spreadsheet    *)
(* call the function made raised, past the retries of retry_operation.      *)

\* create_cashflow_event: the read of the log raises, or the append raises on every attempt
create_failed(log, event, io) ==
    \/ ~io.rd
    \/ /\ ~DuplicateFound(ensure_cashflow_log_exists(log, io.hdr), event)
       /\ ~retry_operation(io.wr, MAX_RETRIES).ok

\* update_deal_status_with_role: the read of the deal sheet, an update_cell or a call
\* of create_cashflow_event raises
update_failed(deals, log, deal_id, stage, amount, user, role, ts, io) ==
    \/ ~io.main_rd
    \/ /\ find_deal_row(deals, deal_id) # 0
       /\ \/ /\ io.upd_fail # 0
             /\ io.upd_fail <= Len(stage_cell_writes(deals[find_deal_row(deals, deal_id) - 1], stage, amount))
          \/ create_failed(log, CashFlowEvent(deal_id, stage, role, user, amount, ts), io.log)

FaultLogIO == {OkLogIO, [OkLogIO EXCEPT !.rd = FALSE], [OkLogIO EXCEPT !.wr = <<FALSE, TRUE, TRUE>>], [OkLogIO EXCEPT !.wr = <<FALSE, FALSE, FALSE>>]}

FaultTransIO == {[OkTransIO EXCEPT !.log = l] : l \in FaultLogIO} \cup {[OkTransIO EXCEPT !.main_rd = FALSE], [OkTransIO EXCEPT !.upd_fail = 1]}

FaultReads == [deals : BOOLEAN, roles : BOOLEAN, main : BOOLEAN]

FaultGetUserDeals(telegram_id, role, rd) ==
    /\ ret' = [op |-> "get_user_deals", failed |-> ~rd.roles \/ ~rd.main,
               result |-> get_user_deals(dealSheet, rolesSheet, telegram_id, role, rd)]
    /\ UNCHANGED <<now, logSheet, dealSheet, rolesSheet, rentalSheet, deals_cache,
                   roles_cache, user_context, shown, iter>>

FaultGetDebtSummary(rd) ==
    /\ ret' = [op |-> "get_debt_summary", failed |-> ~rd,
               result |-> get_debt_summary(dealSheet, rd)]
    /\ UNCHANGED <<now, logSheet, dealSheet, rolesSheet, rentalSheet, deals_cache,
                   roles_cache, user_context, shown, iter>>

FaultGetCashflowHistory(deal_id, rd) ==
    /\ ret' = [op |-> "get_cashflow_history", failed |-> ~rd,
               result |-> get_cashflow_history(logSheet, deal_id, rd)]
    /\ UNCHANGED <<now, logSheet, dealSheet, rolesSheet, rentalSheet, deals_cache,
                   roles_cache, user_context, shown, iter>>

FaultGetDealData(deal_id, rd) ==
    /\ ret' = [op |-> "get_deal_data_from_sheet", failed |-> ~rd,
               result |-> get_deal_data_from_sheet(dealSheet, deal_id, rd)]
    /\ UNCHANGED <<now, logSheet, dealSheet, rolesSheet, rentalSheet, deals_cache,
                   roles_cache, user_context, shown, iter>>

FaultCreateEvent(deal_id, stage, amount, io) ==
    /\ \E event \in {CashFlowEvent(deal_id, stage, ConfirmingRole(stage), "Ivan", amount, datetime_now(0))} :
       \E r \in {create_cashflow_event(logSheet, event, io)} :
         /\ Len(r.sheet) <= MaxLogRows + 1
         /\ logSheet' = r.sheet
         /\ ret' = [op |-> "create_cashflow_event",
                    failed |-> create_failed(logSheet, event, io), result |-> r.result]
    /\ UNCHANGED <<now, dealSheet, rolesSheet, rentalSheet, deals_cache, roles_cache,
                   user_context, shown, iter>>

FaultUpdateDeal(deal_id, stage, amount, io) ==
    /\ \E r \in {update_deal_status_with_role(dealSheet, logSheet, deal_id, stage, amount, "Ivan", ConfirmingRole(stage), datetime_now(0), io)} :
         /\ Len(r.log) <= MaxLogRows + 1
         /\ dealSheet' = r.deals
         /\ logSheet' = r.log
         /\ ret' = [op |-> "update_deal_status_with_role",
                    failed |-> update_failed(dealSheet, logSheet, deal_id, stage, amount, "Ivan", ConfirmingRole(stage), datetime_now(0), io),
                    result |-> r.result]
    /\ UNCHANGED <<now, rolesSheet, rentalSheet, deals_cache, roles_cache, user_context,
                   shown, iter>>

FaultTransition(deal_id, stage, amount, io) ==
    /\ \E r \in {process_stage_transition(dealSheet, logSheet, deal_id, stage, amount, "Ivan", ConfirmingRole(stage), datetime_now(0), io)} :
         /\ Len(r.log) <= MaxLogRows + 1
         /\ dealSheet' = r.deals
         /\ logSheet' = r.log
         /\ ret' = [op |-> "process_stage_transition",
                    failed |-> update_failed(dealSheet, logSheet, deal_id, stage, amount, "Ivan", ConfirmingRole(stage), datetime_now(0), io),
                    result |-> r.result]
    /\ UNCHANGED <<now, rolesSheet, rentalSheet, deals_cache, roles_cache, user_context,
                   shown, iter>>

FaultCachedDeals(force_refresh, rd) ==
    /\ \E r \in {get_cached_deals(deals_cache, dealSheet, force_refresh, rd)} :
         /\ deals_cache' = r.cache
         /\ ret' = [op |-> "get_cached_deals", failed |-> r.loads = 1 /\ ~rd,
                    result |-> r.result]
    /\ UNCHANGED <<now, logSheet, dealSheet, rolesSheet, rentalSheet, roles_cache,
                   user_context, shown, iter>>

FaultCachedUserRole(telegram_id, force_refresh, rd) ==
    /\ \E r \in {get_cached_user_role(roles_cache, rolesSheet, telegram_id, force_refresh, rd)} :
         /\ roles_cache' = r.cache
         /\ ret' = [op |-> "get_cached_user_role", telegram_id |-> telegram_id,
                    failed |-> r.cache # roles_cache /\ ~rd, result |-> r.result]
    /\ UNCHANGED <<now, logSheet, dealSheet, rolesSheet, rentalSheet, deals_cache,
                   user_context, shown, iter>>

FaultCachedUserDeals(telegram_id, role, force_refresh, rd) ==
    /\ \E r \in {get_cached_user_deals(deals_cache, roles_cache, dealSheet, rolesSheet, telegram_id, role, force_refresh, rd)} :
         /\ deals_cache' = r.deals_cache
         /\ roles_cache' = r.roles_cache
         /\ ret' = [op |-> "get_cached_user_deals",
                    failed |-> \/ ~rd.main
                               \/ (r.deals_cache # deals_cache /\ ~rd.deals)
                               \/ (r.roles_cache # roles_cache /\ ~rd.roles),
                    result |-> r.result]
    /\ UNCHANGED <<now, logSheet, dealSheet, rolesSheet, rentalSheet, user_context,
                   shown, iter>>

InitFaults ==
    /\ dealSheet = <<TheDeal>>
    /\ rolesSheet = BotRoles
    /\ logSheet = <<LOG_HEADERS>>
    /\ rentalSheet = <<>>
    /\ now = 0
    /\ deals_cache = NoDealsCache
    /\ roles_cache = NoRolesCache
    /\ user_context = <<>>
    /\ shown = <<>>
    /\ iter = <<>>
    /\ ret = [op |-> "init"]

NextFaults ==
    \/ \E rd \in ListReads : FaultGetUserDeals("1", ROLE_MANAGER, rd)
    \/ \E rd \in BOOLEAN : FaultGetDebtSummary(rd)
    \/ \E rd \in BOOLEAN : FaultGetCashflowHistory(TheDeal.deal_id, rd)
    \/ \E rd \in BOOLEAN : FaultGetDealData(TheDeal.deal_id, rd)
    \/ \E io \in FaultLogIO : FaultCreateEvent(TheDeal.deal_id, STAGE_RECEIVED_BY_MANAGER, 1, io)
    \/ \E io \in FaultTransIO : FaultUpdateDeal(TheDeal.deal_id, STAGE_RECEIVED_BY_MANAGER, 1, io)
    \/ \E io \in FaultTransIO : FaultTransition(TheDeal.deal_id, STAGE_TRANSFERRED_TO_OWNER, 1, io)
    \/ \E force_refresh \in BOOLEAN, rd \in BOOLEAN : FaultCachedDeals(force_refresh, rd)
    \/ \E force_refresh \in BOOLEAN, rd \in BOOLEAN : FaultCachedUserRole("1", force_refresh, rd)
    \/ \E force_refresh \in BOOLEAN, rd \in FaultReads : FaultCachedUserDeals("1", ROLE_MANAGER, force_refresh, rd)

SpecFaults == InitFaults /\ [][NextFaults]_vars

-----------------------------------------------------------------------------
(* Claims on the caches, the per-user lists, the roles sheet and retries.   *)

\* the time of the latest call before call j that read the spreadsheet; <<>> if none did
LastRefresh(calls, j) == LET read == {i \in 1..(j - 1) : calls[i].loads = 1} IN IF read = {} THEN <<>> ELSE <<calls[CHOOSE i \in read : \A k \in read : i >= k].time>>

\* C11: two calls of get_cached_deals at most 30 seconds apart, with no invalidate_cache
\* between them and no force_refresh, never both read the spreadsheet, and when the
\* first one read, the second returns the list the first returned without reading;
\* a call more than 30 seconds after the last refresh, or the first call after
\* invalidate_cache, reads the spreadsheet once and returns the list it has just read.
C11_CacheFreshness ==
    LET c == iter.calls
    IN /\ \A i \in 1..(Len(c) - 1) :
              (c[i + 1].time - c[i].time <= 30 /\ ~c[i + 1].invalidated
                    /\ ~c[i + 1].force_refresh)
                  => /\ c[i].loads + c[i + 1].loads <= 1
                     /\ c[i].loads = 1 => c[i + 1].result = c[i].result
       /\ \A j \in 1..Len(c) :
              (\/ c[j].invalidated
               \/ LastRefresh(c, j) # <<>> /\ c[j].time - LastRefresh(c, j)[1] > 30)
                  => /\ c[j].loads = 1
                     /\ c[j].result = parse_rows(IF c[j].rd THEN c[j].sheet ELSE <<>>, 1)

\* A first call read the sheet, a second one 30 seconds later returned the same list
\* although the sheet had changed, and a third one a second later read the new sheet.
C11_Witness ==
    /\ Len(iter.calls) = 3
    /\ LET c == iter.calls
       IN /\ c[1].loads = 1 /\ c[2].loads = 0 /\ c[3].loads = 1
          /\ c[2].time - c[1].time = 30 /\ c[3].time - c[1].time = 31
          /\ ~c[2].invalidated /\ ~c[3].invalidated
          /\ ~c[2].force_refresh /\ ~c[3].force_refresh
          /\ c[2].sheet # c[1].sheet /\ c[2].result = c[1].result
          /\ c[3].result # c[2].result

\* the introduced name get_user_role finds for a user, "" when it finds none
IntroducedName(roles, telegram_id) == LET n == get_user_role(roles, telegram_id, TRUE).predstavites IN IF n = None THEN "" ELSE strip(n)

\* the rule of a role on a row, as the claim words it
RoleRule(row, role, introduced) ==
    \/ role = ROLE_OWNER /\ ~(is_yes(row.transferred_to_owner) /\ is_yes(row.owner_accepted))
    \/ /\ role = ROLE_MANAGER
       /\ lower(row.who_received_cash) \notin {"", "not received"}
       /\ \/ introduced # "" /\ lower(row.who_received_cash) = lower(introduced)
          \/ introduced = "" /\ row.name # "" /\ lower(row.who_received_cash) = lower(row.name)
    \/ /\ role = ROLE_ASSISTANT
       /\ is_yes(row.transferred_to_assistant) /\ ~is_yes(row.transferred_to_owner)

\* the rows get_user_deals is to return, as row numbers of the data rows
RuleRows(sheet, role, introduced) == {i \in DOMAIN sheet : sheet[i].deal_id # "//" /\ ~is_yes(sheet[i].all_cashless) /\ RoleRule(sheet[i], role, introduced)}

\* the managers of the roles sheet a row names as the one who received the cash
ReceivedBy(roles, row) == {roles[i][3] : i \in {i \in 2..Len(roles) : strip(roles[i][2]) # "" /\ lower(strip(roles[i][2])) = lower(row.who_received_cash)}}

\* C12: get_user_deals returns exactly the parsed, non-cashless deals that satisfy the
\* rule of the role (owner: not both transferred to the owner and accepted; manager:
\* received, by the caller's introduced name or, when that is blank, by the form name
\* of the row; assistant: transferred to the assistant and not to the owner; no role:
\* none), and a deal received by one manager is not in the list of another manager.
C12_UserDealsByRole ==
    (ret.op = "get_user_deals" /\ ret.rd = OkListReads) =>
        LET rows == RuleRows(dealSheet, ret.role, IntroducedName(rolesSheet, ret.telegram_id))
        IN /\ Len(ret.result) = Cardinality(rows)
           /\ {d.row_index - 2 : d \in Range(ret.result)} = rows
           /\ \A i \in DOMAIN ret.result :
                  /\ ret.result[i] = _parse_deal_from_row(dealSheet[ret.result[i].row_index - 2], ret.result[i].row_index - 2)[1]
                  /\ \A j \in DOMAIN ret.result : i < j => ret.result[i].row_index < ret.result[j].row_index
           /\ ret.role = ROLE_MANAGER =>
                  \A d \in Range(ret.result) :
                      LET by == ReceivedBy(rolesSheet, dealSheet[d.row_index - 2])
                      IN by # {} => ret.telegram_id \in by


\* a row the debt summary is to count, as the claim words it
Counted(row) ==
    /\ ~is_yes(row.all_cashless)
    /\ lower(row.who_received_cash) \notin {"", "not received"}
    /\ ~(is_yes(row.transferred_to_owner) /\ is_yes(row.owner_accepted))
    /\ Len(row.amount_received) = 1 /\ row.amount_received # TEXT_CELL
    /\ row.amount_received[1] > 0

\* the sum of the amounts of a deals list
RECURSIVE SumAmounts(_)
SumAmounts(deals) == IF deals = <<>> THEN 0 ELSE deals[1].amount + SumAmounts(Tail(deals))

\* C14: get_debt_summary counts a row exactly when it is not cashless, somebody
\* received its cash, it is not both transferred to and accepted by the owner, and its
\* amount parses to a positive number; under every manager, total_debt is the sum of
\* the amounts of the deals listed and deals_count is their number.
C14_DebtSummary ==
    (ret.op = "get_debt_summary" /\ ret.rd) =>
        LET rows == {i \in DOMAIN dealSheet : Counted(dealSheet[i])}
        IN /\ DOMAIN ret.result = {dealSheet[i].name : i \in rows}
           /\ \A k \in DOMAIN ret.result :
                  LET mine == {i \in rows : dealSheet[i].name = k}
                      deals == ret.result[k].deals
                  IN /\ Len(deals) = Cardinality(mine)
                     /\ {<<d.deal_id, d.amount>> : d \in Range(deals)}
                            = {<<dealSheet[i].deal_id, dealSheet[i].amount_received[1]>> : i \in mine}
                     /\ ret.result[k].total_debt = SumAmounts(deals)
                     /\ ret.result[k].deals_count = Len(deals)

\* Ivan holds the cash of two deals, 1 and 2, beside rows that are not counted
C14_Witness ==
    /\ ret.op = "get_debt_summary" /\ ret.rd
    /\ DOMAIN ret.result = {"Ivan"}
    /\ ret.result["Ivan"].deals_count = 2
    /\ ret.result["Ivan"].total_debt = 3

\* the owner has accepted the deal: both flags of its row are set
Accepted(deals, deal_id) == \E i \in DOMAIN deals : deals[i].deal_id = deal_id /\ is_yes(deals[i].transferred_to_owner) /\ is_yes(deals[i].owner_accepted)

\* the row of the deal before any transfer: Ivan holds its cash
HeldRow == FormRow("O/L/1", "Ivan", "Ivan", <<1>>)

\* the deals caches a list may be served from: none, and one filled at the clock's
\* present reading when Ivan held the cash
StaleCaches == {NoDealsCache, [data |-> <<parse_rows(<<HeldRow>>, 1)>>, timestamp |-> <<now>>]}

\* the deal is in no list of the owner (user 3 of the roles sheet), read directly or
\* through a cache, and under no manager of the debt summary
Absent(deals, deal_id) ==
    /\ \A d \in Range(get_user_deals(deals, rolesSheet, "3", ROLE_OWNER, OkListReads)) :
           d.deal_id # deal_id
    /\ \A dcache \in StaleCaches :
           \A d \in Range(get_cached_user_deals(dcache, roles_cache, deals, rolesSheet, "3", ROLE_OWNER, FALSE, [deals |-> TRUE, roles |-> TRUE, main |-> TRUE]).result) :
               d.deal_id # deal_id
    /\ LET summary == get_debt_summary(deals, TRUE)
       IN \A k \in DOMAIN summary : \A d \in Range(summary[k].deals) : d.deal_id # deal_id

AcceptedNow == Accepted(dealSheet, "O/L/1")
AbsentNow == Absent(dealSheet, "O/L/1")

\* the outcomes of a call that records Accepted by owner for the deal now
AcceptCalls ==
    {process_stage_transition(dealSheet, logSheet, "O/L/1", STAGE_ACCEPTED_BY_OWNER, a, "Oleg", ROLE_OWNER, datetime_now(0), io) : a \in Amounts, io \in AcceptIOCases}

RowRoles(sheet) == IF sheet = <<>> THEN <<>> ELSE [i \in 1..(Len(sheet) - 1) |-> cell_or(sheet[i + 1], find_col(sheet[1], "Role"), ROLE_NULL)]

\* C15: no operation changes the role of a row the roles sheet holds, and every row an
\* operation adds carries the null role.
C15_RolesNeverChanged ==
    [][LET old == RowRoles(rolesSheet)
           new == RowRoles(rolesSheet')
       IN /\ Len(new) >= Len(old)
          /\ \A i \in 1..Len(old) : new[i] = old[i]
          /\ \A i \in (Len(old) + 1)..Len(new) : new[i] = ROLE_NULL]_vars

\* The bot has named the manager's row, leaving his role, and added user 3 with the
\* null role.
C15_Witness ==
    /\ Len(rolesSheet) = 3
    /\ rolesSheet[2] = <<"Ivan P.", "Ivan", "1", ROLE_MANAGER>>
    /\ rolesSheet[3] = <<"Ivan P.", "", "3", ROLE_NULL>>

\* the header of the sheet the call found has a Telegram-ID column
HasIdColumn(sheet) == sheet # <<>> /\ find_col(sheet[1], "Telegram ID") # <<>>

\* the data rows of a sheet that hold the id in the id column of the header
RowsOf(sheet, telegram_id) == {i \in 2..Len(sheet) : Len(sheet[i]) > find_col(sheet[1], "Telegram ID")[1] /\ sheet[i][find_col(sheet[1], "Telegram ID")[1] + 1] = telegram_id}

\* a spreadsheet call of the add_user_to_roles call noted in ret raised
CallFailed == ~ret.io.rd \/ (ret.io.wr = 0 /\ (RowsOf(ret.before, ret.telegram_id) = {} \/ \E i \in RowsOf(ret.before, ret.telegram_id) : Len(ret.before[i]) >= 1 /\ ret.before[i][1] = ""))

\* what a call that returned true has left: one row of the id; the row it found, with
\* the name filled in if it was blank, or a new row under the rows it found; after it,
\* a further call changes nothing
Upserted ==
    LET before == ret.before
        found == RowsOf(before, ret.telegram_id)
    IN /\ Cardinality(RowsOf(rolesSheet, ret.telegram_id)) = 1
       /\ found = {} => /\ Len(rolesSheet) = Len(before) + 1
                        /\ SubSeq(rolesSheet, 1, Len(before)) = before
       /\ found # {} => /\ Len(rolesSheet) = Len(before)
                        /\ \A i \in 1..Len(before) :
                               \/ rolesSheet[i] = before[i]
                               \/ /\ i \in found /\ before[i][1] = ""
                                  /\ rolesSheet[i] = [before[i] EXCEPT ![1] = ret.name]
                        /\ \A i \in found : before[i][1] = "" => rolesSheet[i][1] = ret.name
       /\ \A name \in {"Ivan P.", "Vanya"} :
              add_user_to_roles(rolesSheet, ret.telegram_id, name, OkRolesIO) = [sheet |-> rolesSheet, result |-> TRUE]

ROLE_VALUES == {ROLE_MANAGER, ROLE_ASSISTANT, ROLE_OWNER, ROLE_NULL}

\* C17: every UserRole that get_user_role or get_cached_user_role returns has one of
\* the four roles, whatever the roles sheet holds, and a user without a row has the
\* null role.
C17_RoleEnumerated ==
    ret.op \in {"get_user_role", "get_cached_user_role"} =>
        /\ ret.result.role \in ROLE_VALUES
        /\ (ret.op = "get_user_role" /\ (rolesSheet = <<>> \/ ~HasIdColumn(rolesSheet) \/ RowsOf(rolesSheet, ret.telegram_id) = {}))
               => ret.result.role = ROLE_NULL

\* how many calls of func the trace holds
Calls(trace) == Cardinality({i \in DOMAIN trace : trace[i] \in {"ok", "fail"}})

\* the loop has returned or raised
RetryOver == iter.pc \in {"returned", "raised"}

\* what the loop has done so far is what retry_operation allows
RetrySafe ==
    LET t == iter.trace
        m == iter.max_retries
    IN /\ Calls(t) <= m
       /\ \A i \in DOMAIN t : t[i] = "ok" => i = Len(t) /\ iter.pc = "returned"
       /\ \A i \in DOMAIN t : t[i] = "sleep" => i > 1 /\ t[i - 1] = "fail"
       /\ \A i \in DOMAIN t : (t[i] = "fail" /\ i < Len(t)) => t[i + 1] = "sleep"
       /\ RetryOver => (t = <<>> \/ t[Len(t)] # "sleep")
       /\ iter.pc = "returned" => (m = 0 /\ t = <<>>) \/ (t # <<>> /\ t[Len(t)] = "ok")
       /\ iter.pc = "raised" =>
              /\ Calls(t) = m /\ \A i \in DOMAIN t : t[i] # "ok"
              /\ t[Len(t)] = "fail" /\ iter.attempt = m - 1
       /\ RetryOver =>
              LET r == retry_operation(iter.outs, m)
              IN /\ r.calls = Calls(t)
                 /\ r.raised = (iter.pc = "raised")
                 /\ r.sleeps = Cardinality({i \in DOMAIN t : t[i] = "sleep"})
       /\ \A w \in RetryOutcomes :
              /\ retry_operation(w, MAX_RETRIES).calls <= 3
              /\ retry_operation(w, MAX_RETRIES).ok = (\E i \in 1..3 : w[i])

\* C18: retry_operation calls func at most max_retries times, stops at the first call
\* that returns, sleeps only between a failed call and the next one, and raises what
\* the last call raised when every call fails; the append to the audit log is tried
\* at most 3 times, and the loop always ends.
C18_RetryBounded == [] RetrySafe /\ <> RetryOver

\* Three calls failed, with a sleep after each of the first two only, and the loop
\* raised.
C18_Witness ==
    /\ iter.max_retries = 3
    /\ iter.trace = <<"fail", "sleep", "fail", "sleep", "fail">>
    /\ iter.pc = "raised"

\* the rows of the sheet whose address and spot number are the asked ones, letter case
\* and surrounding blanks apart
MatchingRows(sheet, address, mm_number) ==
    {i \in DOMAIN sheet : /\ Len(sheet[i]) > 2
                          /\ lower(strip(sheet[i][2])) = lower(address)
                          /\ lower(strip(sheet[i][3])) = lower(mm_number)}

\* the sheet b with the next-payment-date cell of row i set to d, nothing else changed
WithNextDate(b, i, d) == [b EXCEPT ![i][4] = d]

\* C19: when the rental reference sheet has a row matching the address and the spot
\* number and no spreadsheet call fails, update_rental_payment_date returns true and
\* that row's next-payment-date cell is paid_on plus 30 days as DD.MM.YY, every other
\* cell as before.
C19_NextPaymentDate ==
    (/\ ret.op = "update_rental_payment_date"
     /\ ret.io = OkRentalIO
     /\ MatchingRows(ret.before, ret.address, ret.mm_number) # {})
        => /\ ret.result
           /\ \E i \in MatchingRows(ret.before, ret.address, ret.mm_number) :
                  rentalSheet = WithNextDate(ret.before, i, strftime_dmy(add_days(ret.payment_date, 30)))

\* the functions of the lower layers that return a list or a dict
LIST_OPS ==
    {"get_user_deals", "get_debt_summary", "get_cashflow_history", "get_cached_deals",
     "get_cached_user_deals"}

\* those that return a truth value
BOOL_OPS == {"create_cashflow_event", "update_deal_status_with_role", "process_stage_transition"}

\* C20: a lower-layer function one of whose spreadsheet calls raised returns its
\* default: the empty list or dict, false, no deal data, the null role of the user.
C20_DefaultOnFailure ==
    ("failed" \in DOMAIN ret /\ ret.failed) =>
        CASE ret.op \in LIST_OPS -> ret.result = <<>>
          [] ret.op \in BOOL_OPS -> ret.result = FALSE
          [] ret.op = "get_deal_data_from_sheet" -> ret.result = <<>>
          [] ret.op = "get_cached_user_role" -> ret.result = DefaultUserRole(ret.telegram_id)
          [] OTHER -> TRUE

-----------------------------------------------------------------------------
(* SpecSession: the handlers of SpecBot in a process that may be restarted. *)
(* user_context and the caches are module globals of the process and start  *)
(* empty; the messages the users were sent, with their buttons, stay in the *)
(* chats.  The restarted process hashes as the one before did.              *)

Restart ==
    /\ user_context' = <<>>
    /\ deals_cache' = NoDealsCache
    /\ roles_cache' = NoRolesCache
    /\ ret' = [op |-> "restart"]
    /\ UNCHANGED <<rentalSheet, now, logSheet, dealSheet, rolesSheet, shown, iter>>

NextSession == NextBot \/ Restart

SpecSession == InitBot /\ [][NextSession]_vars

-----------------------------------------------------------------------------
(* SpecCells: callers of update_deal_status_with_role, in any order and     *)
(* with a fault at any of its spreadsheet calls, on a deal sheet of two     *)
(* rows: the deal of the form, and under it another deal or a second row of *)
(* the same deal.                                                           *)

MaxCellEvents == 1

\* the deal of the form before the manager's receipt
CellRows == {FormRow("O/L/1", "Ivan", "Ivan", <<>>)}

\* the row under it
CellTails == {FormRow("O/L/2", "Ivan", "Ivan", <<2>>), FormRow("O/L/1", "Petr", "Petr", <<2>>)}

CellSheets == {<<r, t>> : r \in CellRows, t \in CellTails}

\* the faults of a call: none, a failed read of the deal sheet, a failure of the
\* n-th update_cell, three failed appends to the log
CellIOCases ==
    {OkTransIO, [OkTransIO EXCEPT !.main_rd = FALSE]}
    \cup {[OkTransIO EXCEPT !.upd_fail = n] : n \in 1..4}
    \cup {[OkTransIO EXCEPT !.log = [OkLogIO EXCEPT !.wr = <<FALSE, FALSE, FALSE>>]]}

\* a caller of update_deal_status_with_role; the caller notes the sheets it found
UpdateDealStatus(deal_id, stage, amount, io) ==
    /\ \E r \in {update_deal_status_with_role(dealSheet, logSheet, deal_id, stage, amount,
                                              "Ivan", ConfirmingRole(stage),
                                              datetime_now(0), io)} :
          /\ Len(r.log) <= MaxCellEvents + 1
          /\ dealSheet' = r.deals
          /\ logSheet' = r.log
          /\ ret' = [op |-> "update_deal_status_with_role", deal_id |-> deal_id,
                     stage |-> stage, amount |-> amount,
                     deals_before |-> dealSheet, log_before |-> logSheet,
                     result |-> r.result]
    /\ UNCHANGED <<rentalSheet, now, rolesSheet, deals_cache, roles_cache, user_context,
                   shown, iter>>

InitCells ==
    /\ logSheet = <<LOG_HEADERS>>
    /\ dealSheet \in CellSheets
    /\ rolesSheet = <<>>
    /\ InitRest

\* calls for the deal of the first row, and calls for a deal the sheet does not hold
NextCells ==
    \/ \E s \in Range(STAGES), a \in Amounts, io \in CellIOCases :
          UpdateDealStatus("O/L/1", s, a, io)
    \/ \E s \in Range(STAGES), a \in Amounts : UpdateDealStatus("O/L/3", s, a, OkTransIO)

SpecCells == InitCells /\ [][NextCells]_vars

-----------------------------------------------------------------------------
(* SpecTyping: the handlers of SpecBot, with users who go on typing after   *)
(* their amount was captured and who press buttons of earlier messages of   *)
(* their chat.                                                              *)

\* the user u, whose amount was captured, sends one more text: a larger amount
Retype(u, text) ==
    /\ u \in DOMAIN user_context
    /\ user_context[u].amount # <<>>
    /\ \E r \in {handle_amount_input(u, text)} :
          /\ user_context' = r.user_context
          /\ shown' = Put(shown, u, r.keyboard)
          /\ ret' = [op |-> "handle_amount_input", text |-> text]
    /\ UNCHANGED <<rentalSheet, now, logSheet, dealSheet, rolesSheet, deals_cache,
                   roles_cache, iter>>

\* a conf_ button of a message an earlier process sent: hash() of a str differs
\* from process to process, so its tokens are the hashes of nothing
STALE_CONF == <<"conf", "0", "0">>

\* the buttons of earlier messages: the conf_ button the user's pending
\* confirmation came from, and the button of the earlier process
EarlierButtons(u) ==
    {STALE_CONF}
    \cup (IF /\ u \in DOMAIN user_context
              /\ HasItem(Hashed, user_context[u].deal_id)
              /\ HasItem(Hashed, user_context[u].stage)
           THEN {<<"conf", ToString(hash(user_context[u].deal_id) % 1000000),
                   ToString(hash(user_context[u].stage) % 10000)>>}
           ELSE {})

\* the user u, whose amount was captured, presses a button of an earlier message
PressEarlier(u, data) ==
    /\ u \in DOMAIN user_context
    /\ user_context[u].amount # <<>>
    /\ data \in EarlierButtons(u)
    /\ \E role_read \in {get_cached_user_role(roles_cache, rolesSheet, str_id(u), FALSE,
                                                TRUE)} :
       \E r \in {callback_handler(u, data, role_read.result, role_read.cache)} :
          /\ user_context' = r.user_context
          /\ deals_cache' = r.deals_cache
          /\ roles_cache' = r.roles_cache
          /\ dealSheet' = r.dealSheet
          /\ logSheet' = r.logSheet
          /\ shown' = Put(shown, u, r.keyboard)
          /\ ret' = [op |-> "callback_handler", data |-> data]
    /\ UNCHANGED <<rentalSheet, now, rolesSheet, iter>>

NextTyping ==
    \/ NextBot
    \/ \E u \in Users : Retype(u, ToString(MaxTyped + 1))
    \/ \E u \in Users : \E data \in EarlierButtons(u) : PressEarlier(u, data)

\* the sheets when the process starts: the manager holds the cash of the deal, or
\* has handed it to the assistant
InitTyping ==
    /\ \E n \in 1..2 :
          /\ dealSheet = Preloaded(n).deals
          /\ logSheet = Preloaded(n).log
    /\ rolesSheet = BotRoles
    /\ InitRest

SpecTyping == InitTyping /\ [][NextTyping]_vars

-----------------------------------------------------------------------------
(* Claims about sessions, the cells of a transition and racing handlers.    *)

\* the reply of handle_amount_input to a text of the user u
TextReply(u, text) == handle_amount_input(u, text)

\* C21: a user with no pending confirmation who sends a text or presses a
\* confirm_amount_{h} button gets the 'session expired' reply and nothing else: the
\* sheets stay as they are and no pending confirmation is created.
C21_SessionExpired ==
    [][\A u \in Users :
          u \notin DOMAIN user_context =>
              /\ \A text \in AmountTexts :
                    AmountInput(u, text) =>
                        /\ TextReply(u, text).branch = "no_session"
                        /\ UNCHANGED <<user_context, dealSheet, logSheet>>
              /\ \A a \in Amounts :
                    Callback(u, confirm_amount_data(a)) =>
                        /\ HandledBy(u, confirm_amount_data(a)) = "confirm_amount_no_session"
                        /\ UNCHANGED <<user_context, dealSheet, logSheet>>]_vars

\* the last call was one of update_deal_status_with_role
CellCall == ret.op = "update_deal_status_with_role"

\* the row of the deal of the last call in the sheet it found: the first of
\* the rows with that deal id, 0 when there is none
CalledRow ==
    IF \E i \in DOMAIN ret.deals_before : ret.deals_before[i].deal_id = ret.deal_id
    THEN CHOOSE i \in DOMAIN ret.deals_before :
            /\ ret.deals_before[i].deal_id = ret.deal_id
            /\ \A j \in 1..(i - 1) : ret.deals_before[j].deal_id # ret.deal_id
    ELSE 0

\* the cells a stage may write on a row
CellsOfStage(stage, row) ==
    CASE stage = STAGE_RECEIVED_BY_MANAGER -> {"amount_received"}
      [] stage = STAGE_TRANSFERRED_TO_ASSISTANT -> {"transferred_to_assistant"}
      [] stage = STAGE_ACCEPTED_BY_ASSISTANT -> {"transferred_to_assistant"}
      [] stage = STAGE_TRANSFERRED_TO_OWNER -> {"transferred_to_owner"}
      [] stage = STAGE_ACCEPTED_BY_OWNER ->
            {"transferred_to_owner", "owner_accepted", "amount_accepted"}
            \cup (IF Len(row.amount_received) = 1 THEN {"difference"} ELSE {})

\* what a cell of the stage holds after the call
CellOfStage(cell, row, amount) ==
    CASE cell \in {"amount_received", "amount_accepted"} -> <<amount>>
      [] cell = "difference" -> <<row.amount_received[1] - amount>>
      [] OTHER -> "Yes"

\* C22: update_deal_status_with_role writes only the cells of the stage on the
\* matching row: the amount received; the flag of the transfer to the assistant;
\* the flag of the transfer to the owner; for Accepted by owner both owner flags,
\* the amount accepted and, when the amount received is known, the difference
\* received minus accepted.  Every other cell and row is unchanged, and the sheet
\* keeps its rows.
C22_OnlyStageCells ==
    CellCall =>
        /\ Len(dealSheet) = Len(ret.deals_before)
        /\ \A i \in DOMAIN ret.deals_before :
              IF i # CalledRow THEN dealSheet[i] = ret.deals_before[i]
              ELSE \A cell \in DOMAIN ret.deals_before[i] :
                     IF cell \in CellsOfStage(ret.stage, ret.deals_before[i])
                     THEN ret.result =>
                             dealSheet[i][cell]
                                = CellOfStage(cell, ret.deals_before[i], ret.amount)
                     ELSE dealSheet[i][cell] = ret.deals_before[i][cell]

\* the owner accepted less than the manager had received, on a sheet that holds a
\* second row of the deal: the difference is written on the first row
C22_Witness ==
    /\ CellCall /\ ret.result /\ ret.stage = STAGE_ACCEPTED_BY_OWNER
    /\ CalledRow = 1
    /\ ret.deals_before[2].deal_id = ret.deal_id
    /\ ret.deals_before[1].amount_received = <<2>>
    /\ ret.amount = 1
    /\ dealSheet[1].difference = <<1>>
    /\ dealSheet[1].owner_accepted = "Yes"

\* C23: update_deal_status_with_role for a deal id that matches no row of the deal
\* sheet returns failure, writes no cell and appends no audit event.
C23_NoRowNoChange ==
    (CellCall /\ CalledRow = 0) =>
        /\ ret.result = FALSE
        /\ dealSheet = ret.deals_before
        /\ logSheet = ret.log_before

\* a call for a deal the sheet does not hold, after the deal of the first row was
\* received and logged
C23_Witness ==
    /\ CellCall /\ CalledRow = 0
    /\ ret.deal_id = "O/L/3"
    /\ dealSheet[1].amount_received # <<>>
    /\ Len(logSheet) = 2

\* C24: a failed stage transition changes nothing: whenever
\* update_deal_status_with_role returns failure, the deal sheet is what it was
\* before the call and no audit event was appended.
C24_FailedChangesNothing ==
    (CellCall /\ ~ret.result) =>
        /\ dealSheet = ret.deals_before
        /\ logSheet = ret.log_before

\* the rows of the audit log with the Accepted-by-owner events of a deal
AcceptedEvents(deal_id) ==
    {i \in DOMAIN logSheet :
        /\ logSheet[i] # LOG_HEADERS
        /\ logSheet[i][1] = deal_id
        /\ logSheet[i][2] = STAGE_ACCEPTED_BY_OWNER}

\* the amount cell of the latest of them
LatestAccepted(deal_id) ==
    logSheet[CHOOSE i \in AcceptedEvents(deal_id) : \A j \in AcceptedEvents(deal_id) : j <= i][5]

\* C26: the deal row and the audit log agree on the accepted amount: if the log
\* holds an Accepted-by-owner event of a deal, the accepted-amount cell of the deal
\* row equals the amount of the latest such event.
C26_AcceptedAmountAgrees ==
    \A i \in DOMAIN dealSheet :
        (/\ \A j \in 1..(i - 1) : dealSheet[j].deal_id # dealSheet[i].deal_id
         /\ AcceptedEvents(dealSheet[i].deal_id) # {})
            => dealSheet[i].amount_accepted = LatestAccepted(dealSheet[i].deal_id)

\* C25: racing confirmations are recorded once: a confirm_amount_{h} callback of
\* a user whose pending confirmation holds the amount with the hash h, whether it
\* is the first confirmation of that stage of the deal or one that repeats another
\* less than 5 minutes old, leaves exactly one row of that deal and stage in the
\* audit log.  The handlers run one update at a time, and no time passes between
\* the confirmations.
C25_RacingRecordedOnce ==
    [][\A u \in Users, a \in Amounts :
          (/\ u \in DOMAIN user_context
           /\ user_context[u].amount = <<a>>
           /\ Callback(u, confirm_amount_data(a)))
          => Cardinality({i \in DOMAIN logSheet' :
                            /\ logSheet'[i] # LOG_HEADERS
                            /\ logSheet'[i][1] = user_context[u].deal_id
                            /\ logSheet'[i][2] = user_context[u].stage}) = 1]_vars

\* C27: once an amount is captured in a user's pending confirmation, further texts
\* of the user never change it: handle_amount_input shows the confirmation prompt
\* of the stored amount again and leaves the pending confirmations as they are;
\* and whatever is handled, the entry stays as it is until it is deleted or
\* replaced by an entry without an amount.
C27_CapturedAmountKept ==
    [][\A u \in Users :
          (u \in DOMAIN user_context /\ user_context[u].amount # <<>>) =>
              /\ \A text \in AmountTexts \cup {ToString(MaxTyped + 1)} :
                    (AmountInput(u, text) \/ Retype(u, text)) =>
                        /\ user_context' = user_context
                        /\ shown'[u]
                             = get_amount_confirmation_keyboard(user_context[u].amount[1])
              /\ \/ u \notin DOMAIN user_context'
                 \/ user_context'[u] = user_context[u]
                 \/ user_context'[u].amount = <<>>]_vars

\* a user whose captured amount is 1 has typed 2 and is shown the prompt of 1
C27_Witness ==
    /\ ret.op = "handle_amount_input"
    /\ "text" \in DOMAIN ret
    /\ ret.text = ToString(MaxTyped + 1)
    /\ \E u \in DOMAIN user_context :
          /\ user_context[u].amount = <<1>>
          /\ u \in DOMAIN shown
          /\ shown[u] = get_amount_confirmation_keyboard(1)

\* the deals of the sheet the second token of a conf_ callback stands for
ConfDeals(data) ==
    {dealSheet[i].deal_id : i \in DOMAIN dealSheet}
        \cap {d \in DealIds : ToString(hash(d) % 1000000) = data[2]}

\* the stages its third token stands for
ConfStages(data) ==
    {s \in {STAGE_TRANSFERRED_TO_ASSISTANT, STAGE_ACCEPTED_BY_ASSISTANT,
            STAGE_TRANSFERRED_TO_OWNER, STAGE_ACCEPTED_BY_OWNER} :
        ToString(hash(s) % 10000) = data[3]}

\* the user u presses the button data: of the keyboard sent last, or of an
\* earlier message
Pressed(u, data) == Callback(u, data) \/ PressEarlier(u, data)

\* C28: after a conf_{dealHash}_{stageHash} callback that resolves the deal and
\* the stage, the caller's pending confirmation holds the resolved deal id and
\* stage and no amount, whatever the caller had pending before; the entries of
\* the other users stay.  When the deal or the stage is not resolved, the pending
\* confirmations are left as they were.
C28_ConfStoresSelection ==
    [][\A u \in Users, data \in Buttons \cup {STALE_CONF} :
          (data[1] = "conf" /\ Len(data) = 3 /\ Pressed(u, data)) =>
              IF ConfDeals(data) # {} /\ ConfStages(data) # {}
              THEN /\ u \in DOMAIN user_context'
                   /\ user_context'[u].deal_id \in ConfDeals(data)
                   /\ user_context'[u].stage \in ConfStages(data)
                   /\ user_context'[u].amount = <<>>
                   /\ \A v \in Users \ {u} :
                         /\ v \in DOMAIN user_context' <=> v \in DOMAIN user_context
                         /\ v \in DOMAIN user_context => user_context'[v] = user_context[v]
              ELSE user_context' = user_context]_vars

\* a user whose amount was captured has pressed the conf_ button of a stage again:
\* the pending confirmation holds the deal and the stage, and no amount
C28_Witness ==
    /\ ret.op = "callback_handler"
    /\ "data" \in DOMAIN ret
    /\ ret.data # STALE_CONF
    /\ \E u \in DOMAIN user_context :
          /\ user_context[u].deal_id \in ConfDeals(ret.data)
          /\ user_context[u].stage \in ConfStages(ret.data)
          /\ user_context[u].amount = <<>>
          /\ shown[u] = get_cancel_keyboard

\* a command, a callback or a text of the user u is handled
HandledFrom(u) ==
    \/ StartCommand(u, full_name(u), OkRolesIO, TRUE)
    \/ MyDealsCommand(u)
    \/ \E data \in Buttons \cup {STALE_CONF} : Pressed(u, data)
    \/ \E text \in AmountTexts \cup {ToString(MaxTyped + 1)} :
          AmountInput(u, text) \/ Retype(u, text)

\* C29: pending confirmations are isolated per user: handling a command, a callback
\* or a text of a user never creates, changes or deletes the pending confirmation
\* of another user; and a user has at most one pending confirmation, the one
\* stored under the user's own id.
C29_PendingPerUser ==
    /\ [][\A u \in Users :
             HandledFrom(u) =>
                 \A v \in Users \ {u} :
                     /\ v \in DOMAIN user_context' <=> v \in DOMAIN user_context
                     /\ v \in DOMAIN user_context => user_context'[v] = user_context[v]]_vars
    /\ [](/\ DOMAIN user_context \subseteq Users
          /\ \A u \in DOMAIN user_context : user_context[u].telegram_id = str_id(u))

\* two users have pending confirmations at once: one has had an amount captured and
\* then the other has pressed cancel or selected a stage
C29_Witness ==
    /\ ret.op = "callback_handler"
    /\ \E u \in DOMAIN user_context, v \in DOMAIN shown :
          /\ u # v
          /\ user_context[u].amount # <<>>
          /\ shown[v] \in {get_main_menu_keyboard, get_cancel_keyboard}
          /\ v \in DOMAIN user_context => user_context[v].amount = <<>>

\* C30: a pending confirmation is created only for a stage the caller's role may
\* confirm: every pending confirmation the conf_/confirm_ branch has stored names
\* a stage for which can_confirm_stage holds of the role stored with it.
C30_PendingOnlyForOwnStage ==
    \A u \in DOMAIN user_context :
        can_confirm_stage(user_context[u].user_role.role, user_context[u].stage)

-----------------------------------------------------------------------------
(* SpecSame: a caller who asks both get_cached_user_deals and               *)
(* get_user_deals for the list of a user, on a deal sheet of two rows that  *)
(* stage transitions rewrite between the calls while time passes.           *)

\* the row under the deal of the form: another deal, or a second row of the same
\* deal whose cash was not received
SameTails ==
    {FormRow("O/L/2", "Ivan", "Ivan", <<2>>), FormRow("O/L/1", "Ivan", NOT_RECEIVED, <<>>)}

\* the caller asks both functions: the cache-aware one, which leaves the caches
\* refreshed, and the uncached one, on the same sheets at the same instant
BothUserDeals(telegram_id, role) ==
    /\ \E cached \in {get_cached_user_deals(deals_cache, roles_cache, dealSheet, rolesSheet,
                                            telegram_id, role, FALSE, OkUserDealsReads)} :
          /\ deals_cache' = cached.deals_cache
          /\ roles_cache' = cached.roles_cache
          /\ ret' = [op |-> "user_deals", telegram_id |-> telegram_id, role |-> role,
                     cached |-> cached.result,
                     uncached |-> get_user_deals(dealSheet, rolesSheet, telegram_id, role,
                                                 OkListReads)]
    /\ UNCHANGED <<now, logSheet, dealSheet, rolesSheet, rentalSheet, user_context, shown,
                   iter>>

InitSame ==
    /\ logSheet = <<LOG_HEADERS>>
    /\ \E t \in SameTails : dealSheet = <<FormRow("O/L/1", "Ivan", "Ivan", <<1>>), t>>
    /\ rolesSheet = BotRoles
    /\ InitRest

NextSame ==
    \/ CacheTick
    \/ \E u \in Users : BothUserDeals(str_id(u), BotRoles[u + 1][4])
    \/ \E s \in {STAGE_TRANSFERRED_TO_ASSISTANT, STAGE_TRANSFERRED_TO_OWNER} :
          Transition("O/L/1", s, 1, 0, OkTransIO)

SpecSame == InitSame /\ [][NextSame]_vars

-----------------------------------------------------------------------------
(* SpecThreads: threads that call get_cached_deals() at the same time.  A   *)
(* call waits for _cache_lock, takes it, reads the clock and tests the      *)
(* cache; when the test asks for it, it reads the deal sheet and replaces   *)
(* the cached list and its timestamp; then it returns a copy and leaves     *)
(* the lock.  The read of the sheet takes time, and the sheet is rewritten  *)
(* by a stage transition while the calls run.  iter holds the threads:     *)
(* the holder of the lock (0 for none), where each thread is, who was       *)
(* calling when it called, the clock it read, what it returned, and the     *)
(* reads of the sheet that were made.                                       *)

MaxThreads == 2

Threads == 1..MaxThreads

\* a variant of lock_free for a lock that is never waited for
lock_free_always(holder) == TRUE

\* `with _cache_lock:` is entered when no thread holds the lock
lock_free(holder) == holder = 0

\* the test of get_cached_deals at the clock the thread read
needs_refresh(cache, force_refresh) ==
    cache.data = <<>> \/ cache.timestamp = <<>> \/ force_refresh \/ expired(cache.timestamp)

\* a thread calls get_cached_deals()
ThreadCall(t) ==
    /\ iter.pc[t] = "idle"
    /\ iter' = [iter EXCEPT
                  !.pc[t] = "waiting",
                  !.together[t] = {s \in Threads : iter.pc[s] \in {"waiting", "loading"}}]
    /\ ret' = [op |-> "call", thread |-> t]
    /\ UNCHANGED <<now, logSheet, dealSheet, rolesSheet, rentalSheet, deals_cache,
                   roles_cache, user_context, shown>>

\* the thread takes the lock, reads the clock and tests the cache; a cache that
\* needs no refresh is copied and the lock is left
ThreadEnter(t) ==
    /\ iter.pc[t] = "waiting"
    /\ lock_free(iter.lock)
    /\ IF needs_refresh(deals_cache, FALSE)
       THEN iter' = [iter EXCEPT !.pc[t] = "loading", !.lock = t, !.at[t] = <<now>>]
       ELSE iter' = [iter EXCEPT !.pc[t] = "done", !.at[t] = <<now>>,
                                 !.got[t] = deals_cache.data]
    /\ ret' = [op |-> "enter", thread |-> t]
    /\ UNCHANGED <<now, logSheet, dealSheet, rolesSheet, rentalSheet, deals_cache,
                   roles_cache, user_context, shown>>

\* _load_all_deals() returns: the cached list and its timestamp, the clock the
\* thread read, are replaced; the copy is returned and the lock is left
ThreadLoad(t, rd) ==
    /\ iter.pc[t] = "loading"
    /\ \E list \in {_load_all_deals(dealSheet, rd)} :
          /\ deals_cache' = [data |-> <<list>>, timestamp |-> iter.at[t]]
          /\ iter' = [iter EXCEPT
                        !.pc[t] = "done",
                        !.lock = IF iter.lock = t THEN 0 ELSE iter.lock,
                        !.got[t] = <<list>>,
                        !.loads = Append(@, [by |-> t, list |-> list, at |-> iter.at[t][1]])]
    /\ ret' = [op |-> "load", thread |-> t]
    /\ UNCHANGED <<now, logSheet, dealSheet, rolesSheet, rentalSheet, roles_cache,
                   user_context, shown>>

\* the cache when the threads call: unset, or set at 0 from a sheet read then
InitThreads ==
    /\ logSheet = <<LOG_HEADERS>>
    /\ dealSheet = <<TheDeal>>
    /\ rolesSheet = <<>>
    /\ rentalSheet = <<>>
    /\ \/ now = 0 /\ deals_cache = NoDealsCache
       \/ /\ now = CACHE_TTL + 1
          /\ deals_cache = [data |-> <<_load_all_deals(<<TheDeal>>, TRUE)>>, timestamp |-> <<0>>]
    /\ roles_cache = NoRolesCache
    /\ user_context = <<>>
    /\ shown = <<>>
    /\ iter = [running |-> FALSE, lock |-> 0, pc |-> [t \in Threads |-> "idle"],
               together |-> [t \in Threads |-> {}], at |-> [t \in Threads |-> <<>>],
               got |-> [t \in Threads |-> <<>>], loads |-> <<>>]
    /\ ret = [op |-> "start"]

NextThreads ==
    \/ CacheTick
    \/ \E t \in Threads : ThreadCall(t)
    \/ \E t \in Threads : ThreadEnter(t)
    \/ \E t \in Threads, rd \in BOOLEAN : ThreadLoad(t, rd)
    \/ Transition(TheDeal.deal_id, STAGE_TRANSFERRED_TO_ASSISTANT, 1, 0, OkTransIO)

SpecThreads == InitThreads /\ [][NextThreads]_vars

-----------------------------------------------------------------------------
(* SpecStartup: initialize_sheets() on a workbook.  iter.worksheets holds   *)
(* the names of the worksheets the workbook has; the rows of a worksheet    *)
(* the workbook does not have are <<>>.                                     *)

SHEET_MAIN == "Main"
SHEET_ROLES == "Roles"
SHEET_CASHFLOW_LOG == "CashFlow_Log"

SheetNames == {SHEET_MAIN, SHEET_ROLES, SHEET_CASHFLOW_LOG}

\* SheetsClient.get_worksheet: a worksheet that is not found is added
\* (add: add_worksheet returns; it raises otherwise, and so does get_worksheet)
get_worksheet(worksheets, sheet_name, add) ==
    IF sheet_name \in worksheets
    THEN [worksheets |-> worksheets, raised |-> FALSE]
    ELSE IF add
    THEN [worksheets |-> worksheets \cup {sheet_name}, raised |-> FALSE]
    ELSE [worksheets |-> worksheets, raised |-> TRUE]

\* ensure_sheet_exists from its get_worksheet on: it raises what get_worksheet raises
ensure_sheet_of(worksheets, sheet, sheet_name, headers, add, hdr) ==
    LET got == get_worksheet(worksheets, sheet_name, add)
    IN IF got.raised
       THEN [worksheets |-> worksheets, sheet |-> sheet, raised |-> TRUE]
       ELSE [worksheets |-> got.worksheets,
             sheet |-> ensure_sheet_exists(sheet, headers, hdr), raised |-> FALSE]

\* SheetsClient.initialize_sheets: the log sheet, the roles sheet, then the main
\* sheet, whose exception is logged; any other exception is raised to main()
initialize_sheets(worksheets, log, roles, add, hdr_log, hdr_roles) ==
    LET first == ensure_sheet_of(worksheets, log, SHEET_CASHFLOW_LOG, LOG_HEADERS, add, hdr_log)
        second == ensure_sheet_of(first.worksheets, roles, SHEET_ROLES, ROLES_HEADERS, add,
                                  hdr_roles)
        third == get_worksheet(second.worksheets, SHEET_MAIN, add)
    IN IF first.raised
       THEN [worksheets |-> worksheets, log |-> log, roles |-> roles, raised |-> TRUE]
       ELSE IF second.raised
       THEN [worksheets |-> first.worksheets, log |-> first.sheet, roles |-> roles,
             raised |-> TRUE]
       ELSE [worksheets |-> third.worksheets, log |-> first.sheet, roles |-> second.sheet,
             raised |-> FALSE]

\* main() calls initialize_sheets() of the client when the process starts
StartInitialize(add, hdr_log, hdr_roles) ==
    /\ \E r \in {initialize_sheets(iter.worksheets, logSheet, rolesSheet, add, hdr_log,
                                   hdr_roles)} :
          /\ Len(r.log) <= MaxLogRows + 1
          /\ Len(r.roles) <= MaxLogRows + 1
          /\ logSheet' = r.log
          /\ rolesSheet' = r.roles
          /\ iter' = [iter EXCEPT !.worksheets = r.worksheets]
          /\ ret' = [op |-> "initialize_sheets", worksheets |-> iter.worksheets,
                     log |-> logSheet, roles |-> rolesSheet, hdr_log |-> hdr_log,
                     hdr_roles |-> hdr_roles, raised |-> r.raised]
    /\ UNCHANGED <<now, dealSheet, rentalSheet, deals_cache, roles_cache, user_context, shown>>

\* the rows of a log sheet and of a roles sheet a workbook may hold at startup
StartupLogs ==
    {<<>>, <<LOG_HEADERS>>, <<OTHER_HEADERS>>,
     <<to_row(CashFlowEvent("O/L/1", STAGE_TRANSFERRED_TO_ASSISTANT, ROLE_MANAGER, "Ivan", 1, strptime(0)))>>}

StartupRoles == {<<>>, <<ROLES_HEADERS>>, <<<<"Ivan Petrov", "Ivan", "1", ROLE_MANAGER>>>>}

InitStartup ==
    /\ \E w \in SUBSET SheetNames :
          /\ iter = [running |-> FALSE, worksheets |-> w]
          /\ logSheet \in (IF SHEET_CASHFLOW_LOG \in w THEN StartupLogs ELSE {<<>>})
          /\ rolesSheet \in (IF SHEET_ROLES \in w THEN StartupRoles ELSE {<<>>})
          /\ dealSheet \in (IF SHEET_MAIN \in w THEN {<<>>, <<TheDeal>>} ELSE {<<>>})
    /\ now = 0
    /\ rentalSheet = <<>>
    /\ deals_cache = NoDealsCache
    /\ roles_cache = NoRolesCache
    /\ user_context = <<>>
    /\ shown = <<>>
    /\ ret = [op |-> "start"]

NextStartup ==
    \E add \in BOOLEAN, hdr_log \in HdrOutcomes, hdr_roles \in HdrOutcomes :
        StartInitialize(add, hdr_log, hdr_roles)

SpecStartup == InitStartup /\ [][NextStartup]_vars

-----------------------------------------------------------------------------
(* SpecHistory: the history view of a deal whose audit log grows past the   *)
(* number of events the message shows.                                      *)

\* for event in events[:20]
HISTORY_LIMIT == 20

\* how many events the deal of the view (one more than the message shows), and
\* the other deal, get
MaxDealEvents == 21
MaxOtherEvents == 1

\* get_cashflow_history_message: the events the message shows, in its order.
\* (The cut at 3500 characters is not reached within 20 events: an event takes
\* at most 33 + 23 characters of stage and user beside its date and amount.)
get_cashflow_history_message(events) ==
    SubSeq(events, 1, IF Len(events) > HISTORY_LIMIT THEN HISTORY_LIMIT ELSE Len(events))

DealEventCount(deal_id) == Len(SelectSeq(logSheet, LAMBDA r : r[1] = deal_id))

\* a stage of a deal is confirmed and its event is appended to the log
LogEvent(deal_id) ==
    /\ DealEventCount(deal_id) < (IF deal_id = "O/L/1" THEN MaxDealEvents ELSE MaxOtherEvents)
    /\ \E r \in {create_cashflow_event(logSheet,
                     CashFlowEvent(deal_id, STAGE_TRANSFERRED_TO_ASSISTANT, ROLE_MANAGER, "Ivan",
                                   1, datetime_now(0)), OkLogIO)} :
          /\ logSheet' = r.sheet
          /\ ret' = [op |-> "create_cashflow_event", result |-> r.result]
    /\ UNCHANGED <<now, dealSheet, rolesSheet, rentalSheet, deals_cache, roles_cache,
                   user_context, shown, iter>>

\* the clock passes the duplicate window after an event
HistoryTick ==
    /\ Len(logSheet) > 1
    /\ logSheet[Len(logSheet)][6] = now
    /\ now' = now + DUP_WINDOW_SECONDS + 1
    /\ ret' = [op |-> "tick"]
    /\ UNCHANGED <<logSheet, dealSheet, rolesSheet, rentalSheet, deals_cache, roles_cache,
                   user_context, shown, iter>>

\* callback_handler, data history_<deal_id>: the events read and the events shown
ShowHistory(deal_id) ==
    /\ \E events \in {get_cashflow_history(logSheet, deal_id, TRUE)} :
          ret' = [op |-> "history", deal_id |-> deal_id, events |-> events,
                  message |-> get_cashflow_history_message(events)]
    /\ UNCHANGED <<now, logSheet, dealSheet, rolesSheet, rentalSheet, deals_cache,
                   roles_cache, user_context, shown, iter>>

InitHistory == logSheet = <<LOG_HEADERS>> /\ dealSheet = <<TheDeal>> /\ rolesSheet = <<>> /\ InitRest

NextHistory ==
    \/ HistoryTick
    \/ \E deal_id \in {"O/L/1", "O/L/2"} : LogEvent(deal_id)
    \/ ShowHistory("O/L/1")

SpecHistory == InitHistory /\ [][NextHistory]_vars

-----------------------------------------------------------------------------
(* SpecDetail: the deal-detail view of one deal for each role, while the    *)
(* deal moves through the stages its keyboards offer.                       *)

\* the stages the buttons of a deal-detail keyboard lead to: those of its conf
\* buttons, and the two of the recipient keyboard behind the transfer button
OfferedStages(deal_id, keyboard) ==
    {s \in Range(STAGES) :
        \/ <<"conf", ToString(hash(deal_id) % 1000000), ToString(hash(s) % 10000)>> \in keyboard
        \/ /\ <<"transfer", ToString(hash(deal_id) % 1000000)>> \in keyboard
           /\ <<"conf", ToString(hash(deal_id) % 1000000), ToString(hash(s) % 10000)>>
                 \in get_transfer_recipient_keyboard(deal_id)}

\* a user opens the detail view of the deal
ViewDetail(deal_id, role) ==
    /\ ret' = [op |-> "show_deal_detail", deal_id |-> deal_id, role |-> role,
               current_stage |-> get_current_stage(logSheet, deal_id, TRUE),
               keyboard |-> show_deal_detail(deal_id, [role |-> role])]
    /\ UNCHANGED <<now, logSheet, dealSheet, rolesSheet, rentalSheet, deals_cache,
                   roles_cache, user_context, shown, iter>>

\* the user whose keyboard offers a stage confirms it
ConfirmOffered(deal_id, stage) ==
    /\ stage \in OfferedStages(deal_id, show_deal_detail(deal_id, [role |-> ConfirmingRole(stage)]))
    /\ Transition(deal_id, stage, 1, 0, OkTransIO)

InitDetail == logSheet = <<LOG_HEADERS>> /\ dealSheet = <<FormRow("O/L/1", "Ivan", "Ivan", <<1>>)>> /\ rolesSheet = <<>> /\ InitRest

NextDetail ==
    \/ Tick
    \/ \E role \in ROLE_VALUES : ViewDetail("O/L/1", role)
    \/ \E stage \in Range(STAGES) : ConfirmOffered("O/L/1", stage)

SpecDetail == InitDetail /\ [][NextDetail]_vars

-----------------------------------------------------------------------------
(* SpecOrder: business/roles.py and business/cashflow.py on every role a    *)
(* roles sheet may give a user and every current stage of a deal.           *)

\* a variant of get_next_stage_for_role whose manager hands over to the owner
get_next_stage_for_role_manager_to_owner(role, current_stage) ==
    IF role = ROLE_MANAGER
    THEN IF current_stage = None THEN STAGE_RECEIVED_BY_MANAGER
         ELSE IF current_stage = STAGE_RECEIVED_BY_MANAGER THEN STAGE_TRANSFERRED_TO_OWNER
         ELSE None
    ELSE IF role = ROLE_ASSISTANT
    THEN IF current_stage = STAGE_TRANSFERRED_TO_ASSISTANT THEN STAGE_ACCEPTED_BY_ASSISTANT
         ELSE IF current_stage = STAGE_ACCEPTED_BY_ASSISTANT THEN STAGE_TRANSFERRED_TO_OWNER
         ELSE None
    ELSE IF role = ROLE_OWNER
    THEN IF current_stage = STAGE_TRANSFERRED_TO_OWNER THEN STAGE_ACCEPTED_BY_OWNER ELSE None
    ELSE None

\* get_next_stage_for_role(user_role, current_stage), on the role of user_role
get_next_stage_for_role(role, current_stage) ==
    IF role = ROLE_MANAGER
    THEN IF current_stage = None THEN STAGE_RECEIVED_BY_MANAGER
         ELSE IF current_stage = STAGE_RECEIVED_BY_MANAGER THEN STAGE_TRANSFERRED_TO_ASSISTANT
         ELSE None
    ELSE IF role = ROLE_ASSISTANT
    THEN IF current_stage = STAGE_TRANSFERRED_TO_ASSISTANT THEN STAGE_ACCEPTED_BY_ASSISTANT
         ELSE IF current_stage = STAGE_ACCEPTED_BY_ASSISTANT THEN STAGE_TRANSFERRED_TO_OWNER
         ELSE None
    ELSE IF role = ROLE_OWNER
    THEN IF current_stage = STAGE_TRANSFERRED_TO_OWNER THEN STAGE_ACCEPTED_BY_OWNER ELSE None
    ELSE None

\* the roles of a user: the four of config.py, an empty cell, another word
OrderRoles == ROLE_VALUES \cup {"", "Admin"}

\* the current stages of a deal: none yet, or one of the five
OrderStages == {None} \cup Range(STAGES)

GetNextStageForRole ==
    /\ ret' = [op |-> "get_next_stage_for_role",
               result |-> get_next_stage_for_role(iter.role, iter.current_stage)]
    /\ UNCHANGED <<now, logSheet, dealSheet, rolesSheet, rentalSheet, deals_cache,
                   roles_cache, user_context, shown, iter>>

CanConfirmStage(stage) ==
    /\ ret' = [op |-> "can_confirm_stage", stage |-> stage,
               result |-> can_confirm_stage(iter.role, stage)]
    /\ UNCHANGED <<now, logSheet, dealSheet, rolesSheet, rentalSheet, deals_cache,
                   roles_cache, user_context, shown, iter>>

GetNextStage(skip_assistant) ==
    /\ ret' = [op |-> "get_next_stage", skip_assistant |-> skip_assistant,
               result |-> get_next_stage(iter.current_stage, skip_assistant)]
    /\ UNCHANGED <<now, logSheet, dealSheet, rolesSheet, rentalSheet, deals_cache,
                   roles_cache, user_context, shown, iter>>

InitOrder ==
    /\ \E role \in OrderRoles, current_stage \in OrderStages :
          iter = [running |-> FALSE, role |-> role, current_stage |-> current_stage]
    /\ logSheet = <<>>
    /\ dealSheet = <<>>
    /\ rolesSheet = <<>>
    /\ now = 0
    /\ rentalSheet = <<>>
    /\ deals_cache = NoDealsCache
    /\ roles_cache = NoRolesCache
    /\ user_context = <<>>
    /\ shown = <<>>
    /\ ret = [op |-> "start"]

NextOrder ==
    \/ GetNextStageForRole
    \/ \E stage \in Range(STAGES) : CanConfirmStage(stage)
    \/ \E skip_assistant \in BOOLEAN : GetNextStage(skip_assistant)

SpecOrder == InitOrder /\ [][NextOrder]_vars

-----------------------------------------------------------------------------
(* Claims about the cached lists, the start-up of the sheets, the history   *)
(* view and the role predicates.                                            *)

\* the deals of a list
DealsOf(list) == {list[i] : i \in DOMAIN list}

\* C31: get_cached_user_deals returns the same set of deals as get_user_deals
\* for the same caller, role and sheets, also when the deal sheet holds two
\* rows of a deal and when the cached list is older than the rows.
C31_SameUserDeals ==
    ret.op = "user_deals" => DealsOf(ret.cached) = DealsOf(ret.uncached)

\* every thread has returned from its call
AllReturned == \A t \in Threads : iter.pc[t] = "done"

\* a thread called while another call was waiting for the lock or reading
CalledTogether == \E t \in Threads : iter.together[t] # {}

\* one read of the sheet was made and every thread returned the list it produced
OneReadForAll ==
    /\ Len(iter.loads) = 1
    /\ \A t \in Threads : iter.got[t] = <<iter.loads[1].list>>

\* C32 (as stated): callers of get_cached_deals that call together on an unset or
\* expired cache cause exactly one read of the deal sheet between them, and
\* every one of them returns the list that read produced.
C32_OneReadBetweenThem ==
    (iter.running = FALSE /\ AllReturned /\ CalledTogether) => OneReadForAll

\* C32 (amended): the same, for callers that take the lock no more than
\* CACHE_TTL seconds after the clock reading of the caller that reloads; the
\* refresh time is the clock read before the sheet is read, so a caller that
\* gets the lock later than that finds the cache expired and reads again.
C32_OneReadWithinTtl ==
    (/\ iter.running = FALSE
     /\ AllReturned
     /\ CalledTogether
     /\ \A t \in Threads : iter.at[t][1] - iter.loads[1].at <= CACHE_TTL)
    => OneReadForAll

C32_Witness ==
    /\ AllReturned
    /\ CalledTogether
    /\ OneReadForAll
    /\ \E t \in Threads : iter.at[t][1] > iter.loads[1].at
    /\ iter.loads[1].list # _load_all_deals(dealSheet, TRUE)

\* C33: a call of get_cached_deals that finds an empty cached list reads the
\* spreadsheet again, whatever the age of the cache.
C33_EmptyListReloaded ==
    \A j \in 2..Len(iter.calls) :
        iter.calls[j - 1].result = <<>> => iter.calls[j].loads = 1

\* the calls after call j up to call k were not forced and followed no invalidation
Undisturbed(j, k) ==
    \A i \in (j + 1)..k : ~iter.calls[i].invalidated /\ ~iter.calls[i].force_refresh

\* C34: a call of get_cached_deals whose read of the spreadsheet fails leaves an
\* empty list cached with the time of the call and returns the empty list; the
\* calls of the next 30 seconds that are not forced and follow no invalidation
\* return the empty list without reading.
C34_FailedReadCachedEmpty ==
    LET c == iter.calls
    IN /\ \A j \in 1..Len(c) :
              (c[j].loads = 1 /\ ~c[j].rd)
                  => /\ c[j].result = <<>>
                     /\ \A k \in (j + 1)..Len(c) :
                           (c[k].time - c[j].time <= CACHE_TTL /\ Undisturbed(j, k))
                               => c[k].loads = 0 /\ c[k].result = <<>>
       /\ (ret.op = "get_cached_deals" /\ c[Len(c)].loads = 1 /\ ~c[Len(c)].rd)
              => deals_cache = [data |-> << <<>> >>, timestamp |-> <<c[Len(c)].time>>]

\* A list of deals was cached, the read of the refresh 31 seconds later failed, and
\* a call 30 seconds after that returned the empty list without reading the sheet,
\* which held a deal.
C34_Witness ==
    LET c == iter.calls
    IN /\ Len(c) = 3
       /\ c[1].result # <<>>
       /\ c[2].loads = 1 /\ ~c[2].rd /\ c[2].time = c[1].time + CACHE_TTL + 1
       /\ c[3].time = c[2].time + CACHE_TTL /\ c[3].loads = 0 /\ c[3].result = <<>>
       /\ Undisturbed(2, 3)
       /\ parse_rows(c[3].sheet, 1) # <<>>

\* C35: initialize_sheets never creates the main deal sheet: a workbook that has
\* none before the call has none after it (main() goes on whatever the call raises).
C35_MainSheetNotCreated ==
    (ret.op = "initialize_sheets" /\ SHEET_MAIN \notin ret.worksheets)
        => SHEET_MAIN \notin iter.worksheets

\* C36: ensure_sheet_exists leaves a sheet whose first row is not empty as it is,
\* whether the row holds the expected headers or not and whether the read of the
\* row succeeds or fails, and inserts the header row only into a sheet whose
\* first row is empty.
C36_NonEmptyFirstRowUntouched ==
    ret.op = "initialize_sheets" =>
        /\ row_values_1(ret.log) # <<>> => logSheet = ret.log
        /\ row_values_1(ret.roles) # <<>> => rolesSheet = ret.roles
        /\ logSheet # ret.log => logSheet = insert_row_1(ret.log, LOG_HEADERS)
        /\ rolesSheet # ret.roles => rolesSheet = insert_row_1(ret.roles, ROLES_HEADERS)

\* the events of a list with the latest timestamps, HISTORY_LIMIT of them at most
MostRecent(events) ==
    SubSeq(events, IF Len(events) > HISTORY_LIMIT THEN Len(events) - HISTORY_LIMIT + 1 ELSE 1,
           Len(events))

\* C37: the history view of a deal with more than 20 events shows the 20 events
\* with the latest timestamps and none of the older ones; with 20 or fewer
\* events it shows them all.
C37_MostRecentShown ==
    ret.op = "history" =>
        DealsOf(ret.message) = DealsOf(MostRecent(sort_by_timestamp(ret.events)))

\* the conf button of a stage on the keyboard the view has shown
ConfShown(stage) ==
    <<"conf", ToString(hash(ret.deal_id) % 1000000), ToString(hash(stage) % 10000)>>
        \in ret.keyboard

\* the buttons of the keyboard the view has shown that start a stage action
StageActions == {b \in ret.keyboard : b[1] \in {"conf", "transfer"}}

\* C38: the detail view offers an assistant 'accept from manager' only at the stage
\* Transferred to assistant and 'hand off to owner' only at the stage Accepted by
\* assistant, offers an owner 'accept' only at the stage Transferred to owner,
\* offers no role more than one stage action, and offers the null role none.
C38_ActionsGatedByStage ==
    ret.op = "show_deal_detail" =>
        /\ ret.role = ROLE_ASSISTANT =>
              /\ ConfShown(STAGE_ACCEPTED_BY_ASSISTANT)
                    => ret.current_stage = STAGE_TRANSFERRED_TO_ASSISTANT
              /\ ConfShown(STAGE_TRANSFERRED_TO_OWNER)
                    => ret.current_stage = STAGE_ACCEPTED_BY_ASSISTANT
        /\ ret.role = ROLE_OWNER =>
              (ConfShown(STAGE_ACCEPTED_BY_OWNER)
                    => ret.current_stage = STAGE_TRANSFERRED_TO_OWNER)
        /\ Cardinality(StageActions) <= 1
        /\ ret.role = ROLE_NULL => StageActions = {}

\* the roles of the three users of a deal that have a next stage at a current stage
RolesWithNext(current_stage) ==
    {role \in {ROLE_MANAGER, ROLE_ASSISTANT, ROLE_OWNER} :
        get_next_stage_for_role(role, current_stage) # None}

\* C39: a stage that get_next_stage_for_role returns for a role and a current stage
\* is one the role can confirm and is the successor get_next_stage gives the
\* current stage; and at every current stage but the last one, exactly one of
\* manager, assistant and owner has a next stage.
C39_RolesAgreeWithOrder ==
    ret.op = "get_next_stage_for_role" =>
        /\ ret.result # None =>
              /\ can_confirm_stage(iter.role, ret.result)
              /\ ret.result = get_next_stage(iter.current_stage, FALSE)
        /\ iter.current_stage # STAGE_ACCEPTED_BY_OWNER
              => Cardinality(RolesWithNext(iter.current_stage)) = 1

C39_Witness ==
    /\ ret.op = "get_next_stage_for_role"
    /\ iter.role = ROLE_ASSISTANT
    /\ iter.current_stage = STAGE_ACCEPTED_BY_ASSISTANT
    /\ ret.result = STAGE_TRANSFERRED_TO_OWNER
=============================================================================
